---- MODULE Spec2Model ----
(***************************************************************************)
(* Model of the tv-sync-server pairing servers.                            *)
(*                                                                         *)
(* The PIN/approval server (src/unnamed/part_002) is modelled as a state   *)
(* machine over its global maps.  One action stands for one event of the   *)
(* node event loop: a new connection, one message handled by               *)
(* handleClientMessage, a 'close' event, or a timer callback.              *)
(*                                                                         *)
(* Conventions                                                             *)
(*  - connection ids are the fresh tokens of line 147: ids 1..MaxConns are *)
(*    handed out in order and never reused; NoId stands for null;          *)
(*  - time advances in steps of TickMs; a PIN's timestamp is kept as its   *)
(*    age now - timestamp, no longer counted once past the lifetime (all   *)
(*    the code ever asks is age > 5 min);                                  *)
(*  - ws.send on a socket that is not OPEN delivers nothing; sent holds    *)
(*    the messages the last event actually put on open sockets, in the     *)
(*    order of the code; Set.forEach is iterated in ascending id order;    *)
(*  - last names the last event and the branch its handler took; a message *)
(*    whose handler does nothing at all leaves sent and last as they are.  *)
(***************************************************************************)
EXTENDS Integers, Sequences, FiniteSets, TLC

\* ---------------------------------------------------------------- bounds
\* number of connections ever accepted in one run
MaxConns == 3
\* size of the PIN code space (the code draws from 900000 six-digit codes)
NumPins == 2
\* generatePin and enterPin messages of one connection per rate-limiter window
MaxBurst == 1
\* number of connections in the runs with repeated register messages
SmallConns == 2
\* connections, codes and enterPin messages per window in the runs in which
\* one client is paired by several admins in turn
RepairConns == 4
RepairPins == 3
RepairBurst == 3
\* connections in the runs in which more than MaxUses clients redeem one code
UsesConns == 12
\* size of the code space in the runs in which every code is live
ExhaustPins == 1
\* tile indexes an admin assigns, values of Date.now() and enterPin messages of
\* the client per window in the runs with the video wall messages
MaxIndex == 1
MaxNow == 1
WallBurst == 2
\* identities that register with the start_sync server
VwConns == 3
\* sockets, uuids, device ids and steps of time of the syncPlay server
SwSockets == 3
SwUuids == 3
SwDevices == 1
SwTicks == 1
\* ms that pass in one step of time: longer than a rate-limiter window (60 s)
\* and longer than half a PIN lifetime
TickMs == 150001

\* ------------------------------------------------------ program constants
\* pinGenerationLimiter points
GenPoints == 3
\* pinAttemptLimiter points
AttemptPoints == 5
\* PIN lifetime in ms
ExpireTime == 5 * 60 * 1000
\* maxUses of a generated PIN
MaxUses == 10
\* usedPins is cleared when it grows past this size
UsedPinsCap == 1000
\* a connection silent for longer than this many ms is closed by the ping sweep
PingTimeout == 90000

\* the start instant of a sync is this many ms after the message is handled
SyncDelay == 2000
\* syncPlay: the default start delay and the limits it is clamped to, in ms
DefaultDelay == 3000
MinDelay == 1000
MaxDelay == 10000

NoId == 0
NoPin == 0
NoIndex == -1
NoDevice == 0

Ids == 1..MaxConns
Pins == 1..NumPins
Modes == {"admin", "client"}

VARIABLES
    clients,          \* id -> [mode, pairedWith, deviceIndex, open, lastPing]
    adminClients,     \* set of ids
    activePins,       \* pin -> [adminId, age, usedBy, maxUses]
    pendingApprovals, \* clientId -> [adminId, pin]
    clientPairings,   \* clientId -> adminId
    adminGroups,      \* adminId -> set of clientIds
    adminPins,        \* adminId -> pin
    usedPins,         \* set of pins
    wallConfigs,      \* adminId -> [rows, cols, mode]
    genLimiter,       \* key -> points consumed in the current window
    attemptLimiter,   \* key -> points consumed in the current window
    nextId,           \* next fresh connection id
    videoWall,        \* the maps of the start_sync server (part_000)
    syncWall,         \* the maps of the syncPlay server (part_001)
    microtasks,       \* the message handlers of the PIN server waiting at an await
    sent,             \* messages delivered by the last event
    last              \* the last event: [op, id, arg, res]

vars == <<clients, adminClients, activePins, pendingApprovals, clientPairings,
          adminGroups, adminPins, usedPins, wallConfigs, genLimiter,
          attemptLimiter, nextId, videoWall, syncWall, microtasks, sent, last>>

\* the stores of the PIN/approval server, and those of the two other servers
pinServer == <<clients, adminClients, activePins, pendingApprovals, clientPairings,
               adminGroups, adminPins, usedPins, wallConfigs, genLimiter,
               attemptLimiter, nextId>>
otherServers == <<videoWall, syncWall>>

\* ws.on('message') is an async function: a handler that reaches an await
\* waits in the microtask queue, continues when it is at its head, and leaves
\* the queue when it returns; a handler that runs alone never waits
Return(queue) == IF queue = <<>> THEN queue ELSE Tail(queue)

\* ---------------------------------------------------------------- helpers
Has(f, k) == k \in DOMAIN f
Put(f, k, v) == [x \in DOMAIN f \cup {k} |-> IF x = k THEN v ELSE f[x]]
Drop(f, k) == [x \in DOMAIN f \ {k} |-> f[x]]
Empty == [x \in {} |-> 0]

Min(S) == CHOOSE x \in S : \A y \in S : x <= y

RECURSIVE SeqOfSet(_)
SeqOfSet(S) == IF S = {} THEN <<>> ELSE <<Min(S)>> \o SeqOfSet(S \ {Min(S)})

Msg(to, type, arg) == [to |-> to, type |-> type, arg |-> arg]
Ev(op, id, arg, res) == [op |-> op, id |-> id, arg |-> arg, res |-> res]

\* variant: the sender's role is not looked at
IsAdminOff(cl, id) == TRUE
\* client.mode === 'admin', lines 368, 511, 542, 570, 684 and 752
IsAdmin(cl, id) == cl[id].mode = "admin"

\* client && client.ws && client.ws.readyState === WebSocket.OPEN
IsOpen(cl, id) == Has(cl, id) /\ cl[id].open

\* ws.send: a message reaches the peer only through an open socket
Send(cl, to, type, arg) ==
    IF IsOpen(cl, to) THEN <<Msg(to, type, arg)>> ELSE <<>>

RECURSIVE SendSeq(_, _, _, _)
SendSeq(cl, tos, type, arg) ==
    IF tos = <<>> THEN <<>>
    ELSE Send(cl, Head(tos), type, arg) \o SendSeq(cl, Tail(tos), type, arg)

SendAll(cl, S, type, arg) == SendSeq(cl, SeqOfSet(S), type, arg)

broadcastClientList(cl, admins) == SendAll(cl, admins, "clientList", 0)

NewClient == [mode |-> "none", pairedWith |-> NoId, deviceIndex |-> NoIndex,
              open |-> TRUE, lastPing |-> 0]

DefaultConfig == [rows |-> 2, cols |-> 2, mode |-> "painting"]

\* pairedClient.pairedWith = null; pairedClient.deviceIndex = null, for each of S
ClearPairing(cl, S) ==
    [c \in DOMAIN cl |->
        IF c \in S THEN [cl[c] EXCEPT !.pairedWith = NoId, !.deviceIndex = NoIndex]
        ELSE cl[c]]

\* adminGroup.delete(c) on the group of admin a, when that group exists
GroupDelete(groups, a, c) ==
    IF Has(groups, a) THEN [groups EXCEPT ![a] = @ \ {c}] ELSE groups

\* RateLimiterMemory.consume(key): one more point in the key's window (the
\* count is kept up to one past `points`, where it makes no more difference)
Consume(limiter, key, points) ==
    Put(limiter, key,
        IF Has(limiter, key) THEN
            (IF limiter[key] > points THEN limiter[key] ELSE limiter[key] + 1)
        ELSE 1)
\* variant: the promise is rejected one point early
RejectedEarly(limiter, key, points) == limiter[key] >= points
\* variant: the promise is never rejected
RejectedNever(limiter, key, points) == FALSE
\* variant: the promise is rejected one point late
RejectedLate(limiter, key, points) == limiter[key] > points + 1
\* the promise of consume is rejected when the points consumed exceed `points`
Rejected(limiter, key, points) == limiter[key] > points

\* generatePin(): draws until the code is neither live nor recently used;
\* after 100 collisions usedPins is cleared and one more code is drawn and
\* returned unchecked.  `space` is the code space, `active` is activePins
\* after the old PIN was removed.  The result is a code and the new usedPins.
\* While a free code exists the loop finds one (100 collisions in a row then
\* have a probability below 2^-100); with no free code every draw collides.
generatePin(space, active, used) ==
    LET free == space \ (DOMAIN active \cup used) IN
    IF free # {}
    THEN {[pin |-> p, used |-> used] : p \in free}
    ELSE {[pin |-> p, used |-> {}] : p \in space}

\* variant: the old PIN is left in activePins
RemoveOldPinKeep(active, apins, id) == active
\* const oldPin = adminPins.get(clientId); if (oldPin) activePins.delete(oldPin)
RemoveOldPin(active, apins, id) ==
    IF Has(apins, id) THEN Drop(active, apins[id]) ELSE active

NewPin(id) == [adminId |-> id, age |-> 0, usedBy |-> {}, maxUses |-> MaxUses]

\* now - data.timestamp > 5 * 60 * 1000
Expired(pinData) == pinData.age > ExpireTime

\* the initial maps of the start_sync server (part_000, lines 24-27)
VwInit ==
    [clients |-> Empty, pairingCodes |-> Empty, adminClientPairs |-> Empty,
     clientAdminPairs |-> Empty]

\* the initial maps of the syncPlay server (part_001, lines 44-51)
SwInit ==
    [sockets |-> Empty, clients |-> Empty, admins |-> Empty, codeMap |-> Empty,
     pendingPairs |-> {}, deviceIdToClientId |-> Empty,
     deviceIdToAdminId |-> Empty, nextWs |-> 1, nextUuid |-> 1, now |-> 0]

\* ------------------------------------------------------------------- Init
Init ==
    /\ clients = Empty
    /\ adminClients = {}
    /\ activePins = Empty
    /\ pendingApprovals = Empty
    /\ clientPairings = Empty
    /\ adminGroups = Empty
    /\ adminPins = Empty
    /\ usedPins = {}
    /\ wallConfigs = Empty
    /\ genLimiter = Empty
    /\ attemptLimiter = Empty
    /\ nextId = 1
    /\ videoWall = VwInit
    /\ syncWall = SwInit
    /\ microtasks = <<>>
    /\ sent = <<>>
    /\ last = Ev("init", NoId, 0, "ok")

\* ------------------------------------------------------------- connection
\* wss.on('connection'): a fresh id, a clientInfo record, the welcome message
\* and a client list for the admins
Connect(max) ==
    /\ nextId <= max
    /\ LET id == nextId
           cl == Put(clients, id, NewClient)
       IN /\ clients' = cl
          /\ nextId' = nextId + 1
          /\ sent' = Send(cl, id, "welcome", id) \o broadcastClientList(cl, adminClients)
          /\ last' = Ev("connect", id, 0, "ok")
    /\ UNCHANGED <<adminClients, activePins, pendingApprovals, clientPairings,
                   adminGroups, adminPins, usedPins, wallConfigs, genLimiter,
                   attemptLimiter>>
    /\ UNCHANGED otherServers
    /\ UNCHANGED microtasks

\* case 'register': the mode is overwritten on every register; an admin gets a
\* fresh empty group and the default wall configuration.  (The client list is
\* broadcast 100 ms later by a timer that changes no state.)
Register(id, mode) ==
    /\ Has(clients, id)
    /\ clients' = [clients EXCEPT ![id].mode = mode]
    /\ IF mode = "admin"
       THEN /\ adminClients' = adminClients \cup {id}
            /\ adminGroups' = Put(adminGroups, id, {})
            /\ wallConfigs' = Put(wallConfigs, id, DefaultConfig)
       ELSE UNCHANGED <<adminClients, adminGroups, wallConfigs>>
    /\ sent' = <<>>
    /\ last' = Ev("register", id, 0, mode)
    /\ UNCHANGED <<activePins, pendingApprovals, clientPairings, adminPins,
                   usedPins, genLimiter, attemptLimiter, nextId>>
    /\ UNCHANGED otherServers
    /\ microtasks' = Return(microtasks)

\* case 'generatePin'; the codes are drawn from `space`
GeneratePin(id, space) ==
    /\ Has(clients, id)
    /\ IF ~IsAdmin(clients, id)
       THEN /\ UNCHANGED <<sent, last, activePins, adminPins, usedPins, genLimiter>>
       ELSE LET lim == Consume(genLimiter, id, GenPoints) IN
            /\ genLimiter' = lim
            /\ IF Rejected(lim, id, GenPoints)
               THEN /\ sent' = Send(clients, id, "error:pinGeneration", 0)
                    /\ last' = Ev("generatePin", id, 0, "rateLimited")
                    /\ UNCHANGED <<activePins, adminPins, usedPins>>
               ELSE LET active == RemoveOldPin(activePins, adminPins, id) IN
                    \E o \in generatePin(space, active, usedPins) :
                        /\ activePins' = Put(active, o.pin, NewPin(id))
                        /\ adminPins' = Put(adminPins, id, o.pin)
                        /\ usedPins' = o.used
                        /\ sent' = Send(clients, id, "pinGenerated", o.pin)
                        /\ last' = Ev("generatePin", id, o.pin, "ok")
    /\ UNCHANGED <<clients, adminClients, pendingApprovals, clientPairings,
                   adminGroups, wallConfigs, attemptLimiter, nextId>>
    /\ UNCHANGED otherServers
    /\ microtasks' = Return(microtasks)

\* case 'enterPin'
EnterPin(id, pin) ==
    /\ Has(clients, id)
    /\ IF ~(clients[id].mode = "client" /\ pin # NoPin)
       THEN /\ UNCHANGED <<sent, last, activePins, adminPins, pendingApprovals, attemptLimiter>>
       ELSE LET lim == Consume(attemptLimiter, id, AttemptPoints) IN
            /\ attemptLimiter' = lim
            /\ IF Rejected(lim, id, AttemptPoints)
               THEN /\ sent' = Send(clients, id, "error:pinAttempts", 0)
                    /\ last' = Ev("enterPin", id, pin, "rateLimited")
                    /\ UNCHANGED <<activePins, adminPins, pendingApprovals>>
               ELSE IF ~Has(activePins, pin)
               THEN /\ sent' = Send(clients, id, "error:invalidPin", 0)
                    /\ last' = Ev("enterPin", id, 0, "invalidPin")
                    /\ UNCHANGED <<activePins, adminPins, pendingApprovals>>
               ELSE LET pinData == activePins[pin] IN
                    IF Expired(pinData)
                    THEN /\ sent' = Send(clients, id, "error:pinExpired", 0)
                         /\ adminPins' = Drop(adminPins, pinData.adminId)
                         /\ activePins' = Drop(activePins, pin)
                         /\ last' = Ev("enterPin", id, pin, "pinExpired")
                         /\ UNCHANGED pendingApprovals
                    ELSE IF Cardinality(pinData.usedBy) >= pinData.maxUses
                    THEN /\ sent' = Send(clients, id, "error:maxUses", 0)
                         /\ last' = Ev("enterPin", id, pin, "maxUses")
                         /\ UNCHANGED <<activePins, adminPins, pendingApprovals>>
                    ELSE IF Has(pendingApprovals, id)
                    THEN /\ sent' = Send(clients, id, "error:alreadyPending", 0)
                         /\ last' = Ev("enterPin", id, pin, "alreadyPending")
                         /\ UNCHANGED <<activePins, adminPins, pendingApprovals>>
                    ELSE IF IsOpen(clients, pinData.adminId)
                    THEN /\ pendingApprovals' =
                              Put(pendingApprovals, id,
                                  [adminId |-> pinData.adminId, pin |-> pin])
                         /\ sent' = Send(clients, pinData.adminId, "approvalRequest", id)
                                     \o Send(clients, id, "approvalPending", pinData.adminId)
                         /\ last' = Ev("enterPin", id, pin, "pending")
                         /\ UNCHANGED <<activePins, adminPins>>
                    ELSE /\ sent' = Send(clients, id, "error:adminGone", 0)
                         /\ adminPins' = Drop(adminPins, pinData.adminId)
                         /\ activePins' = Drop(activePins, pin)
                         /\ last' = Ev("enterPin", id, pin, "adminGone")
                         /\ UNCHANGED pendingApprovals
    /\ UNCHANGED <<clients, adminClients, clientPairings, adminGroups, usedPins,
                   wallConfigs, genLimiter, nextId>>
    /\ UNCHANGED otherServers
    /\ microtasks' = Return(microtasks)

\* approveClient, lines 707-713: "Remove any existing pairing"
RemoveExistingPairing(groups, cl, target) ==
    IF cl[target].pairedWith # NoId
    THEN GroupDelete(groups, cl[target].pairedWith, target)
    ELSE groups

\* approveClient, lines 719-722: adminGroup.add(data.clientId)
GroupAdd(groups, a, c) ==
    IF Has(groups, a) THEN [groups EXCEPT ![a] = @ \cup {c}] ELSE groups

\* variant: any admin may approve
NotYoursOff(pending, id) == FALSE
\* variant: only another admin's pending approval may be approved
NotYoursInverted(pending, id) == pending.adminId = id
\* approveClient, line 695: pending.adminId !== clientId
NotYours(pending, id) == pending.adminId # id

\* case 'approveClient'
ApproveClient(id, target) ==
    /\ Has(clients, id)
    /\ IF ~IsAdmin(clients, id)
       THEN /\ UNCHANGED <<sent, last, clients, activePins, pendingApprovals, clientPairings,
                           adminGroups>>
       ELSE IF ~Has(pendingApprovals, target)
       THEN /\ sent' = Send(clients, id, "error:noPending", 0)
            /\ last' = Ev("approveClient", id, 0, "noPending")
            /\ UNCHANGED <<clients, activePins, pendingApprovals, clientPairings,
                           adminGroups>>
       ELSE IF NotYours(pendingApprovals[target], id)
       THEN /\ sent' = Send(clients, id, "error:notYours", 0)
            /\ last' = Ev("approveClient", id, 0, "notYours")
            /\ UNCHANGED <<clients, activePins, pendingApprovals, clientPairings,
                           adminGroups>>
       ELSE LET pending == pendingApprovals[target] IN
            /\ pendingApprovals' = Drop(pendingApprovals, target)
            /\ IF Has(clients, target) /\ Has(activePins, pending.pin)
               THEN LET cl == [clients EXCEPT ![target].pairedWith = id] IN
                    /\ clients' = cl
                    /\ clientPairings' = Put(clientPairings, target, id)
                    /\ adminGroups' =
                          GroupAdd(RemoveExistingPairing(adminGroups, clients, target),
                                   id, target)
                    /\ activePins' =
                          [activePins EXCEPT ![pending.pin].usedBy = @ \cup {target}]
                    /\ sent' = Send(cl, target, "paired", id)
                               \o Send(cl, id, "clientPaired", target)
                               \o broadcastClientList(cl, adminClients)
                    /\ last' = Ev("approveClient", id, target, "paired")
               ELSE /\ sent' = <<>>
                    /\ last' = Ev("approveClient", id, target, "dropped")
                    /\ UNCHANGED <<clients, activePins, clientPairings, adminGroups>>
    /\ UNCHANGED <<adminClients, adminPins, usedPins, wallConfigs, genLimiter,
                   attemptLimiter, nextId>>
    /\ UNCHANGED otherServers
    /\ microtasks' = Return(microtasks)

\* case 'rejectClient'
RejectClient(id, target) ==
    /\ Has(clients, id)
    /\ IF /\ IsAdmin(clients, id)
          /\ Has(pendingApprovals, target)
          /\ pendingApprovals[target].adminId = id
       THEN /\ pendingApprovals' = Drop(pendingApprovals, target)
            /\ sent' = Send(clients, target, "approvalRejected", id)
            /\ last' = Ev("rejectClient", id, target, "rejected")
       ELSE /\ UNCHANGED <<sent, last, pendingApprovals>>
    /\ UNCHANGED <<clients, adminClients, activePins, clientPairings, adminGroups,
                   adminPins, usedPins, wallConfigs, genLimiter, attemptLimiter,
                   nextId>>
    /\ UNCHANGED otherServers
    /\ microtasks' = Return(microtasks)

\* case 'unpair', lines 630-647 and 653-673: the pairing of client c is removed
\* on both sides
Detach(groups, cl, c) == GroupDelete(groups, cl[c].pairedWith, c)

\* case 'unpair': target is data.clientId (NoId when the message has none)
Unpair(id, target) ==
    /\ Has(clients, id)
    /\ IF clients[id].mode = "admin" /\ target # NoId
       THEN IF Has(clients, target) /\ clients[target].pairedWith # NoId
            THEN LET cl == ClearPairing(clients, {target}) IN
                 /\ adminGroups' = Detach(adminGroups, clients, target)
                 /\ clients' = cl
                 /\ clientPairings' = Drop(clientPairings, target)
                 /\ sent' = Send(cl, target, "unpaired:adminUnpaired", id)
                            \o broadcastClientList(cl, adminClients)
                 /\ last' = Ev("unpair", id, target, "unpaired")
            ELSE /\ UNCHANGED <<sent, last, clients, clientPairings, adminGroups>>
       ELSE IF clients[id].mode = "client" /\ clients[id].pairedWith # NoId
            THEN LET cl == ClearPairing(clients, {id}) IN
                 /\ adminGroups' = Detach(adminGroups, clients, id)
                 /\ clients' = cl
                 /\ clientPairings' = Drop(clientPairings, id)
                 /\ sent' = Send(cl, clients[id].pairedWith, "clientUnpaired", id)
                            \o broadcastClientList(cl, adminClients)
                 /\ last' = Ev("unpair", id, 0, "selfUnpaired")
            ELSE /\ UNCHANGED <<sent, last, clients, clientPairings, adminGroups>>
    /\ UNCHANGED <<adminClients, activePins, pendingApprovals, adminPins, usedPins,
                   wallConfigs, genLimiter, attemptLimiter, nextId>>
    /\ UNCHANGED otherServers
    /\ microtasks' = Return(microtasks)

\* ------------------------------------------------------------------ close
\* ws.on('close'), lines 216-230: the clients in usedBy of the closing admin's
\* PIN that are connected are notified and their pairing state is cleared
PinClients(active, apins, cl, id) ==
    IF Has(apins, id) /\ Has(active, apins[id])
    THEN {c \in active[apins[id]].usedBy : IsOpen(cl, c)}
    ELSE {}

\* ws.on('close'), lines 239-255: the members of the closing admin's group that
\* are still in clients
GroupClients(groups, cl, id) ==
    IF Has(groups, id) THEN groups[id] \cap DOMAIN cl ELSE {}

\* variant: the closing client stays in usedBy
LeaveUsedByKeep(active, id) == active
\* ws.on('close'), lines 282-286: the closing client leaves every usedBy
LeaveUsedBy(active, id) ==
    [p \in DOMAIN active |-> [active[p] EXCEPT !.usedBy = @ \ {id}]]

\* ws.on('close'), lines 269-279: the closing client's pending approval
ClosePending(pend, id) == Drop(pend, id)

\* the socket of id leaves OPEN ahead of its 'close' event (a close frame
\* arrived, or the ping sweep called ws.close())
BeginClose(id) ==
    /\ IsOpen(clients, id)
    /\ clients' = [clients EXCEPT ![id].open = FALSE]
    /\ sent' = <<>>
    /\ last' = Ev("closing", id, 0, "ok")
    /\ UNCHANGED <<adminClients, activePins, pendingApprovals, clientPairings,
                   adminGroups, adminPins, usedPins, wallConfigs, genLimiter,
                   attemptLimiter, nextId>>
    /\ UNCHANGED otherServers
    /\ UNCHANGED microtasks

\* ws.on('close')
Close(id) ==
    /\ Has(clients, id)
    /\ LET cl0 == [clients EXCEPT ![id].open = FALSE]
           isAdmin == cl0[id].mode = "admin"
           hasPin == isAdmin /\ Has(adminPins, id)
           \* admin branch
           pinClients == IF isAdmin THEN PinClients(activePins, adminPins, cl0, id) ELSE {}
           cl1 == ClearPairing(cl0, pinClients)
           members == IF isAdmin THEN GroupClients(adminGroups, cl1, id) ELSE {}
           cl2 == ClearPairing(cl1, members)
           groups1 == IF isAdmin THEN Drop(adminGroups, id) ELSE adminGroups
           admins1 == IF isAdmin THEN adminClients \ {id} ELSE adminClients
           active1 == IF hasPin THEN Drop(activePins, adminPins[id]) ELSE activePins
           pairings1 == [c \in DOMAIN clientPairings \ members |-> clientPairings[c]]
           \* client branch
           paired == cl2[id].pairedWith # NoId
           groups2 == IF paired THEN GroupDelete(groups1, cl2[id].pairedWith, id)
                      ELSE groups1
           pairings2 == IF paired THEN Drop(pairings1, id) ELSE pairings1
           hasPending == Has(pendingApprovals, id)
           cl3 == Drop(cl2, id)
       IN /\ clients' = cl3
          /\ adminClients' = admins1
          /\ adminGroups' = groups2
          /\ wallConfigs' = IF isAdmin THEN Drop(wallConfigs, id) ELSE wallConfigs
          /\ usedPins' = IF hasPin THEN usedPins \cup {adminPins[id]} ELSE usedPins
          /\ adminPins' = IF hasPin THEN Drop(adminPins, id) ELSE adminPins
          /\ activePins' = LeaveUsedBy(active1, id)
          /\ clientPairings' = pairings2
          /\ pendingApprovals' =
                IF hasPending THEN ClosePending(pendingApprovals, id)
                ELSE pendingApprovals
          /\ sent' = SendAll(cl0, pinClients, "unpaired:adminDisconnected", id)
                     \o SendAll(cl2, members, "unpaired:adminDisconnected", id)
                     \o (IF hasPending
                         THEN Send(cl2, pendingApprovals[id].adminId,
                                   "approvalCancelled", id)
                         ELSE <<>>)
                     \o broadcastClientList(cl3, admins1)
          /\ last' = Ev("close", id, 0, clients[id].mode)
    /\ UNCHANGED <<genLimiter, attemptLimiter, nextId>>
    /\ UNCHANGED otherServers
    /\ UNCHANGED microtasks

\* ------------------------------------------------------------------- time
\* TickMs pass: every PIN is that much older (an age past the lifetime is not
\* counted further) and every rate-limiter window (60 s) has ended
\* and every connection outside `silent` has sent a ping (case 'ping', line
\* 774: client.lastPing = Date.now()); lastPing is kept as the time since then
Elapse(silent) ==
    /\ activePins' =
          [p \in DOMAIN activePins |->
              [activePins[p] EXCEPT
                  !.age = IF @ > ExpireTime THEN @ ELSE @ + TickMs]]
    /\ clients' =
          [id \in DOMAIN clients |->
              [clients[id] EXCEPT
                  !.lastPing = IF id \notin silent THEN 0
                               ELSE IF @ > PingTimeout THEN @ ELSE @ + TickMs]]
    /\ genLimiter' = Empty
    /\ attemptLimiter' = Empty
    /\ sent' = <<>>
    /\ last' = Ev("tick", NoId, 0, "ok")
    /\ UNCHANGED <<adminClients, pendingApprovals, clientPairings,
                   adminGroups, adminPins, usedPins, wallConfigs, nextId>>
    /\ UNCHANGED otherServers
    /\ UNCHANGED microtasks

\* TickMs pass and every connection keeps sending ping
Tick == Elapse({})

\* case 'ping', lines 772-779
Ping(id) ==
    /\ Has(clients, id)
    /\ clients' = [clients EXCEPT ![id].lastPing = 0]
    /\ sent' = Send(clients, id, "pong", 0)
    /\ last' = Ev("ping", id, 0, "ok")
    /\ UNCHANGED <<adminClients, activePins, pendingApprovals, clientPairings,
                   adminGroups, adminPins, usedPins, wallConfigs, genLimiter,
                   attemptLimiter, nextId>>
    /\ UNCHANGED otherServers
    /\ microtasks' = Return(microtasks)

\* setInterval of lines 835-858, every 30 s: every open socket is sent a ping
\* and the socket of a connection silent for more than 90 s is closed
Overdue(cl, id) == cl[id].lastPing > PingTimeout
PingSweep ==
    /\ sent' = SendAll(clients, DOMAIN clients, "ping", 0)
    /\ clients' =
          [id \in DOMAIN clients |->
              [clients[id] EXCEPT !.open = @ /\ ~Overdue(clients, id)]]
    /\ last' = Ev("pingSweep", NoId, 0, "ok")
    /\ UNCHANGED <<adminClients, activePins, pendingApprovals, clientPairings,
                   adminGroups, adminPins, usedPins, wallConfigs, genLimiter,
                   attemptLimiter, nextId>>
    /\ UNCHANGED otherServers
    /\ UNCHANGED microtasks

\* cleanupExpiredPins, lines 80-107: the notices for one expired PIN
RECURSIVE ExpiryNotices(_, _, _)
ExpiryNotices(cl, active, pins) ==
    IF pins = <<>> THEN <<>>
    ELSE LET pin == Head(pins) IN
         Send(cl, active[pin].adminId, "pinExpired", pin)
         \o SendAll(cl, active[pin].usedBy, "pinExpired", 0)
         \o ExpiryNotices(cl, active, Tail(pins))

\* cleanupExpiredPins, run by setInterval every 60 s
cleanupExpiredPins ==
    /\ LET pinsToDelete == {p \in DOMAIN activePins : Expired(activePins[p])}
           owners == {activePins[p].adminId : p \in pinsToDelete}
           used == usedPins \cup pinsToDelete
       IN /\ adminPins' = [a \in DOMAIN adminPins \ owners |-> adminPins[a]]
          /\ activePins' = [p \in DOMAIN activePins \ pinsToDelete |-> activePins[p]]
          /\ usedPins' = IF Cardinality(used) > UsedPinsCap THEN {} ELSE used
          /\ IF pinsToDelete = {} /\ usedPins' = usedPins
             THEN UNCHANGED <<sent, last>>
             ELSE /\ sent' = ExpiryNotices(clients, activePins, SeqOfSet(pinsToDelete))
                  /\ last' = Ev("cleanup", NoId, Cardinality(pinsToDelete), "ok")
    /\ UNCHANGED <<clients, adminClients, pendingApprovals, clientPairings,
                   adminGroups, wallConfigs, genLimiter, attemptLimiter, nextId>>
    /\ UNCHANGED otherServers
    /\ UNCHANGED microtasks

\* ------------------------------------------------------------ video wall
\* { ...config, ...data.config }: the fields of the update replace those of
\* the stored configuration
Merge(config, update) ==
    [f \in DOMAIN config |-> IF f \in DOMAIN update THEN update[f] ELSE config[f]]

\* case 'assignIndex': target is data.clientId, index is data.index
AssignIndex(id, target, index) ==
    /\ Has(clients, id)
    /\ IF /\ IsAdmin(clients, id) /\ target # NoId
          /\ Has(clients, target) /\ Has(adminGroups, id) /\ target \in adminGroups[id]
       THEN LET cl == [clients EXCEPT ![target].deviceIndex = index] IN
            /\ clients' = cl
            /\ sent' = Send(cl, target, "indexAssigned", index)
                       \o broadcastClientList(cl, adminClients)
            /\ last' = Ev("assignIndex", id, target, "assigned")
       ELSE UNCHANGED <<clients, sent, last>>
    /\ UNCHANGED <<adminClients, activePins, pendingApprovals, clientPairings,
                   adminGroups, adminPins, usedPins, wallConfigs, genLimiter,
                   attemptLimiter, nextId>>
    /\ UNCHANGED otherServers
    /\ microtasks' = Return(microtasks)

\* case 'updateConfig': update is data.config
UpdateConfig(id, update) ==
    /\ Has(clients, id)
    /\ IF IsAdmin(clients, id) /\ Has(wallConfigs, id)
       THEN LET config == Merge(wallConfigs[id], update) IN
            /\ wallConfigs' = Put(wallConfigs, id, config)
            /\ sent' = IF Has(adminGroups, id)
                       THEN SendAll(clients, adminGroups[id], "configUpdate", config)
                       ELSE <<>>
            /\ last' = Ev("updateConfig", id, 0, "updated")
       ELSE UNCHANGED <<wallConfigs, sent, last>>
    /\ UNCHANGED <<clients, adminClients, activePins, pendingApprovals,
                   clientPairings, adminGroups, adminPins, usedPins, genLimiter,
                   attemptLimiter, nextId>>
    /\ UNCHANGED otherServers
    /\ microtasks' = Return(microtasks)

\* variant: the start instant is computed anew for every recipient
SyncDataPerClient(config, now, k) == [config |-> config, syncTime |-> now + k + SyncDelay]
\* lines 580-584: syncData, built once per sync message; now is Date.now()
SyncData(config, now, k) == [config |-> config, syncTime |-> now + SyncDelay]

\* lines 591-609: the k-th and later members of the group are sent syncData
RECURSIVE SyncSeq(_, _, _, _, _)
SyncSeq(cl, tos, config, now, k) ==
    IF tos = <<>> THEN <<>>
    ELSE Send(cl, Head(tos), "sync", SyncData(config, now, k))
         \o SyncSeq(cl, Tail(tos), config, now, k + 1)

\* case 'sync': update is data.config, now is Date.now()
Sync(id, update, now) ==
    /\ Has(clients, id)
    /\ IF IsAdmin(clients, id) /\ Has(wallConfigs, id)
       THEN LET config == Merge(wallConfigs[id], update) IN
            /\ sent' = Send(clients, id, "sync", SyncData(config, now, 0))
                       \o (IF Has(adminGroups, id)
                           THEN SyncSeq(clients, SeqOfSet(adminGroups[id]), config, now, 1)
                           ELSE <<>>)
            /\ last' = Ev("sync", id, 0, "sent")
       ELSE UNCHANGED <<sent, last>>
    /\ UNCHANGED <<clients, adminClients, activePins, pendingApprovals,
                   clientPairings, adminGroups, adminPins, usedPins, wallConfigs,
                   genLimiter, attemptLimiter, nextId>>
    /\ UNCHANGED otherServers
    /\ microtasks' = Return(microtasks)

\* =========================================================================
\* The start_sync server (src/unnamed/part_000).  Its maps are the fields of
\* videoWall: clients, pairingCodes, adminClientPairs, clientAdminPairs.
\* Every message names the identities it is about (data.clientId,
\* data.adminId), and no handler looks at the connection it arrived on: an
\* action takes the fields of the message.  An identity is registered by one
\* connection at a time; a JavaScript Set is kept as the sequence of its
\* elements in insertion order; the connections stay within the message rate
\* limit of lines 80-91.  Every message handled is recorded in last.
\* =========================================================================
\* new Client(ws, clientId), lines 30-39, with its role
VwClient(role) == [role |-> role, pairingCode |-> NoPin, open |-> TRUE]

Range(s) == {s[i] : i \in 1..Len(s)}
\* Set.add and Set.delete on a set kept in insertion order
SetAdd(s, x) == IF x \in Range(s) THEN s ELSE Append(s, x)
SetDelete(s, x) == SelectSeq(s, LAMBDA y : y # x)

\* the step of a handler of the start_sync server: the new maps, the messages
\* delivered and the event
VwStep(vw, msgs, ev) ==
    /\ videoWall' = vw
    /\ sent' = msgs
    /\ last' = ev
    /\ UNCHANGED <<pinServer, syncWall, microtasks>>

\* handleRegister: role is data.role
handleRegister(clientId, role) ==
    LET cl == Put(videoWall.clients, clientId, VwClient(role)) IN
    VwStep([videoWall EXCEPT !.clients = cl],
           IF role = "admin" /\ Has(videoWall.adminClientPairs, clientId)
           THEN Send(cl, clientId, "client_list", 0) ELSE <<>>,
           Ev("register", clientId, 0, role))

\* handleRegisterCode: the client registers the code it displays
handleRegisterCode(code, clientId) ==
    /\ Has(videoWall.clients, clientId)
    /\ LET old == videoWall.clients[clientId].pairingCode
           codes == IF old # NoPin THEN Drop(videoWall.pairingCodes, old)
                    ELSE videoWall.pairingCodes
       IN VwStep([videoWall EXCEPT
                     !.clients[clientId].pairingCode = code,
                     !.pairingCodes =
                         Put(codes, code, [clientId |-> clientId, expired |-> FALSE])],
                 <<>>,
                 Ev("register_code", clientId, code, "ok"))

\* handleConnectionRequest: an admin asks for the client that shows `code`
handleConnectionRequest(code, adminId) ==
    LET vw == videoWall IN
       IF ~Has(vw.pairingCodes, code)
       THEN VwStep(vw, Send(vw.clients, adminId, "error:invalidCode", 0),
                   Ev("request_connection", adminId, code, "invalidCode"))
       ELSE IF vw.pairingCodes[code].expired
       THEN VwStep([vw EXCEPT !.pairingCodes = Drop(@, code)],
                   Send(vw.clients, adminId, "error:codeExpired", 0),
                   Ev("request_connection", adminId, code, "expired"))
       ELSE IF ~Has(vw.clients, vw.pairingCodes[code].clientId)
       THEN VwStep(vw, Send(vw.clients, adminId, "error:clientGone", 0),
                   Ev("request_connection", adminId, code, "clientGone"))
       ELSE VwStep(vw,
                   Send(vw.clients, vw.pairingCodes[code].clientId,
                        "connection_request", adminId),
                   Ev("request_connection", adminId, code, "requested"))

\* handleConnectionResponse
handleConnectionResponse(adminId, clientId, approved) ==
    /\ Has(videoWall.clients, adminId)
    /\ Has(videoWall.clients, clientId)
    /\ IF approved
       THEN LET group == IF Has(videoWall.adminClientPairs, adminId)
                         THEN videoWall.adminClientPairs[adminId] ELSE <<>>
            IN VwStep([videoWall EXCEPT
                          !.adminClientPairs = Put(@, adminId, SetAdd(group, clientId)),
                          !.clientAdminPairs = Put(@, clientId, adminId)],
                      Send(videoWall.clients, adminId, "connection_approved", clientId),
                      Ev("connection_response", adminId, clientId, "approved"))
       ELSE VwStep(videoWall,
                   Send(videoWall.clients, adminId, "connection_denied", clientId),
                   Ev("connection_response", adminId, clientId, "denied"))

\* lines 326-337: the sync_command of one recipient; a painting command
\* carries the grid and the recipient's gridPosition
SyncCommand(displayMode, startTime, grid, gridPosition) ==
    IF displayMode = "painting"
    THEN [displayMode |-> displayMode, startTime |-> startTime,
          gridCols |-> grid.cols, gridRows |-> grid.rows,
          gridPosition |-> gridPosition]
    ELSE [displayMode |-> displayMode, startTime |-> startTime]

\* lines 323-341: pairedClients.forEach; gridPosition counts the recipients
\* that are in clients
RECURSIVE SyncCommands(_, _, _, _, _, _)
SyncCommands(cl, tos, displayMode, startTime, grid, gridPosition) ==
    IF tos = <<>> THEN <<>>
    ELSE IF Has(cl, Head(tos))
    THEN Send(cl, Head(tos), "sync_command",
              SyncCommand(displayMode, startTime, grid, gridPosition))
         \o SyncCommands(cl, Tail(tos), displayMode, startTime, grid, gridPosition + 1)
    ELSE SyncCommands(cl, Tail(tos), displayMode, startTime, grid, gridPosition)

\* handleStartSync
handleStartSync(adminId, displayMode, startTime, grid) ==
    IF ~Has(videoWall.adminClientPairs, adminId)
    THEN VwStep(videoWall,
                Send(videoWall.clients, adminId, "error:noClientsPaired", 0),
                Ev("start_sync", adminId, 0, "noClients"))
    ELSE VwStep(videoWall,
                SyncCommands(videoWall.clients, videoWall.adminClientPairs[adminId],
                             displayMode, startTime, grid, 0),
                Ev("start_sync", adminId, 0, "sent"))

\* handleUnpair, lines 349-372: clientId as a client leaves its admin
UnpairFromAdmin(vw, clientId) ==
    IF ~Has(vw.clientAdminPairs, clientId) THEN vw
    ELSE LET adminId == vw.clientAdminPairs[clientId] IN
         [vw EXCEPT
             !.clientAdminPairs = Drop(@, clientId),
             !.adminClientPairs =
                 IF Has(@, adminId)
                 THEN [@ EXCEPT ![adminId] = SetDelete(@, clientId)] ELSE @]
\* the notices of lines 357-371, sent through the sockets of cl
UnpairFromAdminNotices(vw, cl, clientId) ==
    IF ~Has(vw.clientAdminPairs, clientId) THEN <<>>
    ELSE LET adminId == vw.clientAdminPairs[clientId] IN
         (IF Has(vw.adminClientPairs, adminId)
          THEN Send(cl, adminId, "client_disconnected", clientId) ELSE <<>>)
         \o Send(cl, clientId, "unpaired", 0)

\* handleUnpair, lines 374-388: clientId as an admin drops all its clients
UnpairAllClients(vw, clientId) ==
    IF ~Has(vw.adminClientPairs, clientId) THEN vw
    ELSE [vw EXCEPT
             !.clientAdminPairs =
                 [c \in DOMAIN @ \ Range(vw.adminClientPairs[clientId]) |-> @[c]],
             !.adminClientPairs = Drop(@, clientId)]
UnpairAllClientsNotices(vw, cl, clientId) ==
    IF ~Has(vw.adminClientPairs, clientId) THEN <<>>
    ELSE SendSeq(cl, vw.adminClientPairs[clientId], "unpaired", 0)

\* handleUnpair: both parts in turn
handleUnpair(clientId) ==
    LET vw1 == UnpairFromAdmin(videoWall, clientId)
        vw2 == UnpairAllClients(vw1, clientId)
    IN VwStep(vw2,
              UnpairFromAdminNotices(videoWall, videoWall.clients, clientId)
              \o UnpairAllClientsNotices(vw1, videoWall.clients, clientId),
              Ev("unpair", clientId, 0, "ok"))

\* handleUnpairClient: the group of adminId stays in adminClientPairs, with
\* one member less
handleUnpairClient(clientId, adminId) ==
    /\ Has(videoWall.adminClientPairs, adminId)
    /\ VwStep([videoWall EXCEPT
                  !.adminClientPairs[adminId] = SetDelete(@, clientId),
                  !.clientAdminPairs = Drop(@, clientId)],
              Send(videoWall.clients, clientId, "unpaired", 0),
              Ev("unpair_client", adminId, clientId, "ok"))

\* ws.on('close') -> handleDisconnect: the socket of clientId is closed by now
handleDisconnect(clientId) ==
    /\ Has(videoWall.clients, clientId)
    /\ LET code == videoWall.clients[clientId].pairingCode
           vw0 == IF code # NoPin
                  THEN [videoWall EXCEPT !.pairingCodes = Drop(@, code)]
                  ELSE videoWall
           cl == [videoWall.clients EXCEPT ![clientId].open = FALSE]
           vw1 == UnpairFromAdmin(vw0, clientId)
           vw2 == UnpairAllClients(vw1, clientId)
       IN VwStep([vw2 EXCEPT !.clients = Drop(@, clientId)],
                 UnpairFromAdminNotices(vw0, cl, clientId)
                 \o UnpairAllClientsNotices(vw1, cl, clientId),
                 Ev("disconnect", clientId, 0, "ok"))

\* CODE_EXPIRY_TIME passes: every registered code is past its expiry
CodesExpire ==
    /\ \E c \in DOMAIN videoWall.pairingCodes : ~videoWall.pairingCodes[c].expired
    /\ VwStep([videoWall EXCEPT
                  !.pairingCodes = [c \in DOMAIN @ |-> [@[c] EXCEPT !.expired = TRUE]]],
              <<>>,
              Ev("tick", NoId, 0, "ok"))

\* the heartbeat interval, lines 438-444: the expired codes are deleted
CleanExpiredCodes ==
    /\ \E c \in DOMAIN videoWall.pairingCodes : videoWall.pairingCodes[c].expired
    /\ VwStep([videoWall EXCEPT
                  !.pairingCodes =
                      [c \in {d \in DOMAIN @ : ~@[d].expired} |-> @[c]]],
              <<>>,
              Ev("cleanup", NoId, 0, "ok"))

\* =========================================================================
\* The syncPlay server (src/unnamed/part_001).  Its maps are fields of
\* syncWall: clients, admins, codeMap, pendingPairs, deviceIdToClientId and
\* deviceIdToAdminId; sockets holds, for every WebSocket that is connected,
\* the properties the server keeps on it (role, clientId, adminId) and
\* whether its readyState is OPEN; nextWs and nextUuid number the sockets and
\* the uuidv4() identities in the order of their creation; now is Date.now().
\* A message is addressed to a socket.  Every message handled is recorded in
\* last, whose id is the socket it arrived on.  The admins stay within the
\* pairing rate limit of lines 250-257.
\* =========================================================================
\* wsSend: the socket must be there and OPEN
wsSend(sockets, ws, type, arg) ==
    IF ws # NoId /\ Has(sockets, ws) /\ sockets[ws].open
    THEN <<Msg(ws, type, arg)>> ELSE <<>>

\* the step of a handler of the syncPlay server
SwStep(sw, msgs, ev) ==
    /\ syncWall' = sw
    /\ sent' = msgs
    /\ last' = ev
    /\ UNCHANGED <<pinServer, videoWall, microtasks>>

\* wss.on('connection'), lines 87-94
SwConnect ==
    /\ syncWall.nextWs <= SwSockets
    /\ SwStep([syncWall EXCEPT
                  !.sockets = Put(@, syncWall.nextWs,
                                  [role |-> "none", clientId |-> NoId,
                                   adminId |-> NoId, open |-> TRUE]),
                  !.nextWs = @ + 1],
              <<>>,
              Ev("connection", syncWall.nextWs, 0, "ok"))

\* existing.ws.close(1000, 'Reconnected'): the replaced socket leaves OPEN
CloseExisting(sockets, old, ws) ==
    IF old # NoId /\ old # ws /\ Has(sockets, old)
    THEN [sockets EXCEPT ![old].open = FALSE] ELSE sockets

\* handleHello, role 'client'
HelloClient(ws, deviceId) ==
    LET sw == syncWall
        known == deviceId # NoDevice /\ Has(sw.deviceIdToClientId, deviceId)
        clientId == IF known THEN sw.deviceIdToClientId[deviceId] ELSE sw.nextUuid
        old == IF Has(sw.clients, clientId) THEN sw.clients[clientId].ws ELSE NoId
        sockets == [CloseExisting(sw.sockets, old, ws) EXCEPT
                       ![ws].role = "client", ![ws].clientId = clientId]
    IN /\ known \/ sw.nextUuid <= SwUuids
       /\ SwStep([sw EXCEPT
                     !.sockets = sockets,
                     !.clients = Put(@, clientId,
                                     [ws |-> ws, deviceId |-> deviceId, code |-> NoPin,
                                      codeExpiresAt |-> 0, adminIds |-> <<>>]),
                     !.deviceIdToClientId =
                         IF deviceId # NoDevice THEN Put(@, deviceId, clientId) ELSE @,
                     !.nextUuid = IF known THEN @ ELSE @ + 1],
                 wsSend(sockets, ws, "helloAck", clientId),
                 Ev("hello", ws, clientId, "client"))

\* handleHello, role 'admin'
HelloAdmin(ws, deviceId) ==
    LET sw == syncWall
        known == deviceId # NoDevice /\ Has(sw.deviceIdToAdminId, deviceId)
        adminId == IF known THEN sw.deviceIdToAdminId[deviceId] ELSE sw.nextUuid
        existing == Has(sw.admins, adminId)
        old == IF existing THEN sw.admins[adminId].ws ELSE NoId
        sockets == [CloseExisting(sw.sockets, old, ws) EXCEPT
                       ![ws].role = "admin", ![ws].adminId = adminId]
    IN /\ known \/ sw.nextUuid <= SwUuids
       /\ SwStep([sw EXCEPT
                     !.sockets = sockets,
                     !.admins = Put(@, adminId,
                                    [ws |-> ws,
                                     pairedClientIds |->
                                         IF existing THEN sw.admins[adminId].pairedClientIds
                                         ELSE <<>>]),
                     !.deviceIdToAdminId =
                         IF deviceId # NoDevice THEN Put(@, deviceId, adminId) ELSE @,
                     !.nextUuid = IF known THEN @ ELSE @ + 1],
                 wsSend(sockets, ws, "helloAck", adminId),
                 Ev("hello", ws, adminId, "admin"))

\* handleHello: role and deviceId are the fields of the message
handleHello(ws, role, deviceId) ==
    /\ Has(syncWall.sockets, ws) /\ syncWall.sockets[ws].open
    /\ IF role = "client" THEN HelloClient(ws, deviceId)
       ELSE IF role = "admin" THEN HelloAdmin(ws, deviceId)
       ELSE SwStep(syncWall, wsSend(syncWall.sockets, ws, "error:invalidRole", 0),
                   Ev("hello", ws, 0, "invalidRole"))

\* ws.role === r && ws.<r>Id
SwIs(ws, r) ==
    /\ Has(syncWall.sockets, ws) /\ syncWall.sockets[ws].open
    /\ syncWall.sockets[ws].role = r
    /\ (IF r = "client" THEN syncWall.sockets[ws].clientId
        ELSE syncWall.sockets[ws].adminId) # NoId

\* handleRegisterCode: msg.expiresAt is TickMs from now
syncWall_handleRegisterCode(ws, code) ==
    /\ SwIs(ws, "client")
    /\ LET sw == syncWall
           clientId == sw.sockets[ws].clientId
           c == sw.clients[clientId]
           exp == sw.now + TickMs
       IN IF Has(sw.codeMap, code) /\ sw.codeMap[code] # clientId
          THEN SwStep(sw, wsSend(sw.sockets, ws, "codeRejected", code),
                      Ev("registerCode", ws, code, "inUse"))
          ELSE SwStep([sw EXCEPT
                          !.codeMap =
                              Put(IF c.code # NoPin /\ c.code # code
                                  THEN Drop(@, c.code) ELSE @,
                                  code, clientId),
                          !.clients[clientId].code = code,
                          !.clients[clientId].codeExpiresAt = exp],
                      wsSend(sw.sockets, ws, "codeRegistered", code),
                      Ev("registerCode", ws, code, "ok"))

\* handlePairByCode
handlePairByCode(ws, code) ==
    /\ SwIs(ws, "admin")
    /\ LET sw == syncWall
           adminId == sw.sockets[ws].adminId
           pairError(res) ==
               SwStep(sw, wsSend(sw.sockets, ws, "pairError", 0),
                      Ev("pairByCode", ws, code, res))
       IN IF ~Has(sw.codeMap, code) THEN pairError("notFound")
          ELSE LET clientId == sw.codeMap[code]
                   c == sw.clients[clientId]
               IN IF c.ws = NoId THEN pairError("offline")
                  ELSE IF sw.now >= c.codeExpiresAt THEN pairError("expired")
                  ELSE SwStep([sw EXCEPT !.pendingPairs = @ \cup {<<adminId, clientId>>}],
                              wsSend(sw.sockets, c.ws, "pairRequest", adminId)
                              \o wsSend(sw.sockets, ws, "pairPending", clientId),
                              Ev("pairByCode", ws, code, "pending"))

\* handlePairResponse
handlePairResponse(ws, adminId, accepted) ==
    /\ SwIs(ws, "client")
    /\ LET sw == syncWall
           clientId == sw.sockets[ws].clientId
           key == <<adminId, clientId>>
           aWs == IF Has(sw.admins, adminId) THEN sw.admins[adminId].ws ELSE NoId
           aState == IF Has(sw.admins, adminId) THEN sw.admins[adminId]
                     ELSE [ws |-> NoId, pairedClientIds |-> <<>>]
       IN /\ key \in sw.pendingPairs
          /\ IF ~accepted
             THEN SwStep([sw EXCEPT !.pendingPairs = @ \ {key}],
                         wsSend(sw.sockets, aWs, "pairDenied", clientId),
                         Ev("pairResponse", ws, adminId, "denied"))
             ELSE SwStep([sw EXCEPT
                             !.pendingPairs = @ \ {key},
                             !.clients[clientId].adminIds = SetAdd(@, adminId),
                             !.admins =
                                 Put(@, adminId,
                                     [aState EXCEPT
                                         !.pairedClientIds = SetAdd(@, clientId)])],
                         wsSend(sw.sockets, ws, "paired", adminId)
                         \o wsSend(sw.sockets, aWs, "paired", clientId),
                         Ev("pairResponse", ws, adminId, "paired"))

\* handleUnpair, lines 310-320: the admin adminId, on socket ws, unpairs the
\* clients of targets in turn
RECURSIVE AdminUnpair(_, _, _, _)
AdminUnpair(sw, ws, adminId, targets) ==
    IF targets = <<>> THEN [sw |-> sw, msgs |-> <<>>]
    ELSE LET cid == Head(targets)
             sw1 == [sw EXCEPT
                        !.admins[adminId].pairedClientIds = SetDelete(@, cid),
                        !.clients =
                            IF Has(@, cid)
                            THEN [@ EXCEPT ![cid].adminIds = SetDelete(@, adminId)]
                            ELSE @]
             rest == AdminUnpair(sw1, ws, adminId, Tail(targets))
         IN [sw |-> rest.sw,
             msgs |-> (IF Has(sw.clients, cid)
                       THEN wsSend(sw.sockets, sw.clients[cid].ws, "unpaired:admin", adminId)
                       ELSE <<>>)
                      \o wsSend(sw.sockets, ws, "unpairedAck", cid)
                      \o rest.msgs]

\* handleUnpair, lines 325-331: the client clientId leaves the admins of
\* adminIds in turn
RECURSIVE ClientUnpair(_, _, _)
ClientUnpair(sw, clientId, adminIds) ==
    IF adminIds = <<>> THEN [sw |-> sw, msgs |-> <<>>]
    ELSE LET adminId == Head(adminIds)
             known == Has(sw.admins, adminId)
             sw1 == [sw EXCEPT
                        !.admins =
                            IF known
                            THEN [@ EXCEPT ![adminId].pairedClientIds = SetDelete(@, clientId)]
                            ELSE @,
                        !.clients[clientId].adminIds = SetDelete(@, adminId)]
             rest == ClientUnpair(sw1, clientId, Tail(adminIds))
         IN [sw |-> rest.sw,
             msgs |-> (IF known
                       THEN wsSend(sw.sockets, sw.admins[adminId].ws, "unpaired:client", clientId)
                       ELSE <<>>)
                      \o rest.msgs]

\* handleUnpair: target is msg.clientId (NoId when the message has none)
syncWall_handleUnpair(ws, target) ==
    /\ Has(syncWall.sockets, ws) /\ syncWall.sockets[ws].open
    /\ LET sw == syncWall IN
       IF SwIs(ws, "admin")
       THEN LET adminId == sw.sockets[ws].adminId
                targets == IF target # NoId THEN <<target>>
                           ELSE sw.admins[adminId].pairedClientIds
                r == AdminUnpair(sw, ws, adminId, targets)
            IN SwStep(r.sw, r.msgs, Ev("unpair", ws, target, "admin"))
       ELSE IF SwIs(ws, "client")
       THEN LET clientId == sw.sockets[ws].clientId
                r == ClientUnpair(sw, clientId, sw.clients[clientId].adminIds)
            IN SwStep(r.sw, r.msgs \o wsSend(sw.sockets, ws, "unpairedAck", 0),
                      Ev("unpair", ws, 0, "client"))
       ELSE UNCHANGED vars

\* computeAssignmentsForAdmin
computeAssignmentsForAdmin(sw, adminId) ==
    IF Has(sw.admins, adminId) THEN sw.admins[adminId].pairedClientIds ELSE <<>>

\* parseInt(options?.startDelayMs || '3000', 10); startDelayMs is <<d>> for an
\* integer d and <<>> for a missing value: 0 is falsy, as is a missing value
ParseDelay(startDelayMs) ==
    IF startDelayMs # <<>> /\ startDelayMs[1] # 0
    THEN startDelayMs[1] ELSE DefaultDelay
\* line 350: Math.min(Math.max(..., 1000), 10000)
StartDelay(startDelayMs) ==
    LET d == ParseDelay(startDelayMs)
        lo == IF d < MinDelay THEN MinDelay ELSE d
    IN IF lo > MaxDelay THEN MaxDelay ELSE lo

\* lines 355-372: the syncPrepare messages; index counts the recipients whose
\* record has a socket
RECURSIVE SyncPrepares(_, _, _, _)
SyncPrepares(sw, assigned, prepare, index) ==
    IF assigned = <<>> THEN <<>>
    ELSE LET cState == sw.clients[Head(assigned)] IN
         IF ~Has(sw.clients, Head(assigned)) \/ cState.ws = NoId
         THEN SyncPrepares(sw, Tail(assigned), prepare, index)
         ELSE wsSend(sw.sockets, cState.ws, "syncPrepare",
                     [prepare EXCEPT !.tileIndex = index])
              \o SyncPrepares(sw, Tail(assigned), prepare, index + 1)

\* handleSyncPlay: mode, grid and startDelayMs are msg.mode, msg.grid and
\* msg.options.startDelayMs
handleSyncPlay(ws, mode, grid, startDelayMs) ==
    /\ SwIs(ws, "admin")
    /\ LET sw == syncWall
           assigned == computeAssignmentsForAdmin(sw, sw.sockets[ws].adminId)
           startAtMs == sw.now + StartDelay(startDelayMs)
           prepare == [mode |-> mode, grid |-> grid, tileIndex |-> 0,
                       startAtMs |-> startAtMs]
       IN SwStep(sw,
                 SyncPrepares(sw, assigned, prepare, 0)
                 \o wsSend(sw.sockets, ws, "syncScheduled",
                           [startAtMs |-> startAtMs, count |-> Len(assigned)]),
                 Ev("syncPlay", ws, [grid |-> grid, startDelayMs |-> startDelayMs],
                    mode))

\* lines 379-383: the syncStop messages
RECURSIVE SyncStops(_, _)
SyncStops(sw, assigned) ==
    IF assigned = <<>> THEN <<>>
    ELSE (IF Has(sw.clients, Head(assigned))
          THEN wsSend(sw.sockets, sw.clients[Head(assigned)].ws, "syncStop", 0)
          ELSE <<>>)
         \o SyncStops(sw, Tail(assigned))

\* handleSyncStop
handleSyncStop(ws) ==
    /\ SwIs(ws, "admin")
    /\ LET sw == syncWall
           assigned == computeAssignmentsForAdmin(sw, sw.sockets[ws].adminId)
       IN SwStep(sw,
                 SyncStops(sw, assigned)
                 \o wsSend(sw.sockets, ws, "syncStopped", Len(assigned)),
                 Ev("syncStop", ws, 0, "ok"))

\* ws.on('close') -> handleDisconnect: the record the socket's role and
\* identity name loses its socket
syncWall_handleDisconnect(ws) ==
    /\ Has(syncWall.sockets, ws)
    /\ LET sw == syncWall
           s == sw.sockets[ws]
       IN SwStep([sw EXCEPT
                     !.sockets = Drop(@, ws),
                     !.clients =
                         IF s.role = "client" /\ s.clientId # NoId /\ Has(@, s.clientId)
                         THEN [@ EXCEPT ![s.clientId].ws = NoId] ELSE @,
                     !.admins =
                         IF s.role = "admin" /\ s.adminId # NoId /\ Has(@, s.adminId)
                         THEN [@ EXCEPT ![s.adminId].ws = NoId] ELSE @],
                 <<>>,
                 Ev("close", ws, 0, s.role))

\* TickMs pass
SwTick ==
    /\ syncWall.now < SwTicks * TickMs
    /\ SwStep([syncWall EXCEPT !.now = @ + TickMs], <<>>, Ev("tick", NoId, 0, "ok"))

\* cleanupExpiredCodes, run by setInterval every 10 s
cleanupExpiredCodes ==
    LET sw == syncWall
        stale(code) ==
            LET c == sw.clients[sw.codeMap[code]] IN
            \/ ~Has(sw.clients, sw.codeMap[code])
            \/ c.code = NoPin \/ c.codeExpiresAt = 0
            \/ sw.now >= c.codeExpiresAt \/ c.code # code
    IN /\ \E code \in DOMAIN sw.codeMap : stale(code)
       /\ SwStep([sw EXCEPT
                     !.codeMap = [code \in {k \in DOMAIN @ : ~stale(k)} |-> @[code]]],
                 <<>>,
                 Ev("cleanup", NoId, 0, "ok"))

\* ---------------------------------------------------------- specifications
\* The connections of Spec register once and send at most MaxBurst generatePin
\* and MaxBurst enterPin messages per rate-limiter window; their sockets stay
\* OPEN until the 'close' event.  Connection ids are opaque tokens, so the
\* roles are fixed up to renaming: the first connection is an admin, the last
\* one a client, the ones between are either.
RolesOf(id) ==
    IF id = 1 THEN {"admin"} ELSE IF id = MaxConns THEN {"client"} ELSE Modes
FirstRegister(id) == Has(clients, id) /\ clients[id].mode = "none"
Within(limiter, id, n) == IF Has(limiter, id) THEN limiter[id] < n ELSE TRUE

Next ==
    \/ Connect(MaxConns)
    \/ \E id \in Ids : \E mode \in RolesOf(id) :
            FirstRegister(id) /\ Register(id, mode)
    \/ \E id \in Ids : Within(genLimiter, id, MaxBurst) /\ GeneratePin(id, Pins)
    \/ \E id \in Ids, pin \in Pins \cup {NoPin} :
            Within(attemptLimiter, id, MaxBurst) /\ EnterPin(id, pin)
    \/ \E id \in Ids, target \in Ids : ApproveClient(id, target)
    \/ \E id \in Ids, target \in Ids : RejectClient(id, target)
    \/ \E id \in Ids, target \in Ids \cup {NoId} : Unpair(id, target)
    \/ \E id \in Ids : Close(id)
    \/ Tick
    \/ cleanupExpiredPins

Spec == Init /\ [][Next]_vars

\* The first connection of SpecRoles registers once, as an admin; the others
\* may register again at any time, in either role.
SmallIds == 1..SmallConns
NextRoles ==
    \/ Connect(SmallConns)
    \/ FirstRegister(1) /\ Register(1, "admin")
    \/ \E id \in SmallIds \ {1}, mode \in Modes : Register(id, mode)
    \/ \E id \in SmallIds : Within(genLimiter, id, MaxBurst) /\ GeneratePin(id, Pins)
    \/ \E id \in SmallIds, pin \in Pins \cup {NoPin} :
            Within(attemptLimiter, id, MaxBurst) /\ EnterPin(id, pin)
    \/ \E id \in SmallIds, target \in SmallIds : ApproveClient(id, target)
    \/ \E id \in SmallIds, target \in SmallIds : RejectClient(id, target)
    \/ \E id \in SmallIds, target \in SmallIds \cup {NoId} : Unpair(id, target)
    \/ \E id \in SmallIds : Close(id)
    \/ Tick
    \/ cleanupExpiredPins

SpecRoles == Init /\ [][NextRoles]_vars

\* The connections of SpecQuota register once, an admin first and a client
\* last, and send any number of generatePin and enterPin messages per window;
\* a socket may leave OPEN ahead of its 'close' event.
SmallRoles(id) ==
    IF id = 1 THEN {"admin"} ELSE IF id = SmallConns THEN {"client"} ELSE Modes
NextQuota ==
    \/ Connect(SmallConns)
    \/ \E id \in SmallIds : \E mode \in SmallRoles(id) :
            FirstRegister(id) /\ Register(id, mode)
    \/ \E id \in SmallIds : GeneratePin(id, Pins)
    \/ \E id \in SmallIds, pin \in Pins \cup {NoPin} : EnterPin(id, pin)
    \/ \E id \in SmallIds, target \in SmallIds : ApproveClient(id, target)
    \/ \E id \in SmallIds, target \in SmallIds : RejectClient(id, target)
    \/ \E id \in SmallIds, target \in SmallIds \cup {NoId} : Unpair(id, target)
    \/ \E id \in SmallIds : BeginClose(id)
    \/ \E id \in SmallIds : Close(id)
    \/ Tick
    \/ cleanupExpiredPins

SpecQuota == Init /\ [][NextQuota]_vars

\* SpecRepair: RepairConns connections, the last one a client and the others
\* admins, each registering once; every admin issues one code, the client
\* redeems up to RepairBurst codes, all within one rate-limiter window.
RepairIds == 1..RepairConns
RepairRole(id) == IF id = RepairConns THEN "client" ELSE "admin"
NextRepair ==
    \/ Connect(RepairConns)
    \/ \E id \in RepairIds : FirstRegister(id) /\ Register(id, RepairRole(id))
    \/ \E id \in RepairIds :
            Within(genLimiter, id, MaxBurst) /\ GeneratePin(id, 1..RepairPins)
    \/ \E id \in RepairIds, pin \in 1..RepairPins :
            Within(attemptLimiter, id, RepairBurst) /\ EnterPin(id, pin)
    \/ \E id \in RepairIds, target \in RepairIds : ApproveClient(id, target)
    \/ \E id \in RepairIds, target \in RepairIds : RejectClient(id, target)
    \/ \E id \in RepairIds, target \in RepairIds \cup {NoId} : Unpair(id, target)
    \/ \E id \in RepairIds : Close(id)

SpecRepair == Init /\ [][NextRepair]_vars

\* SpecUses: one admin and UsesConns - 1 clients, all connected before the
\* first of them registers; they register and redeem in the order of their
\* connection, each client once, and they are approved in that order.
UsesIds == 1..UsesConns
UsesRole(id) == IF id = 1 THEN "admin" ELSE "client"
Registered(id) == Has(clients, id) /\ clients[id].mode # "none"
Redeemed(id) == Has(pendingApprovals, id) \/ (Has(clients, id) /\ clients[id].pairedWith # NoId)
NextUses ==
    \/ Connect(UsesConns)
    \/ \E id \in UsesIds :
            /\ nextId > UsesConns
            /\ \A j \in 1..(id - 1) : Registered(j)
            /\ FirstRegister(id) /\ Register(id, UsesRole(id))
    \/ \E id \in UsesIds :
            Within(genLimiter, id, MaxBurst) /\ GeneratePin(id, Pins)
    \/ \E id \in UsesIds, pin \in Pins :
            /\ \A j \in 2..(id - 1) : Redeemed(j)
            /\ Within(attemptLimiter, id, MaxBurst) /\ EnterPin(id, pin)
    \/ \E id \in UsesIds, target \in UsesIds :
            /\ \A j \in 2..(target - 1) : Has(clients, j) /\ clients[j].pairedWith # NoId
            /\ ApproveClient(id, target)

SpecUses == Init /\ [][NextUses]_vars

\* SpecExhaust: SmallConns connections that register once, the first one an
\* admin, the others in either role, and a code space of ExhaustPins codes.
ExhaustRoles(id) == IF id = 1 THEN {"admin"} ELSE Modes
ExhaustSpace == 1..ExhaustPins
NextExhaust ==
    \/ Connect(SmallConns)
    \/ \E id \in SmallIds : \E mode \in ExhaustRoles(id) :
            FirstRegister(id) /\ Register(id, mode)
    \/ \E id \in SmallIds :
            Within(genLimiter, id, MaxBurst) /\ GeneratePin(id, ExhaustSpace)
    \/ \E id \in SmallIds, pin \in ExhaustSpace \cup {NoPin} :
            Within(attemptLimiter, id, MaxBurst) /\ EnterPin(id, pin)
    \/ \E id \in SmallIds, target \in SmallIds : ApproveClient(id, target)
    \/ \E id \in SmallIds, target \in SmallIds : RejectClient(id, target)
    \/ \E id \in SmallIds, target \in SmallIds \cup {NoId} : Unpair(id, target)
    \/ \E id \in SmallIds : Close(id)
    \/ Tick
    \/ cleanupExpiredPins

SpecExhaust == Init /\ [][NextExhaust]_vars

\* SpecWall: MaxConns connections that register once, the last one a client
\* and the others admins, with the video wall messages; every admin issues at
\* most MaxBurst codes and the client redeems at most WallBurst codes, all
\* within one rate-limiter window.
WallRole(id) == IF id = MaxConns THEN "client" ELSE "admin"
Indexes == 0..MaxIndex
ConfigUpdates == {[mode |-> "unified"], [rows |-> 1]}
Clock == 0..MaxNow
NextWall ==
    \/ Connect(MaxConns)
    \/ \E id \in Ids : FirstRegister(id) /\ Register(id, WallRole(id))
    \/ \E id \in Ids : Within(genLimiter, id, MaxBurst) /\ GeneratePin(id, Pins)
    \/ \E id \in Ids, pin \in Pins \cup {NoPin} :
            Within(attemptLimiter, id, WallBurst) /\ EnterPin(id, pin)
    \/ \E id \in Ids, target \in Ids : ApproveClient(id, target)
    \/ \E id \in Ids, target \in Ids : RejectClient(id, target)
    \/ \E id \in Ids, target \in Ids \cup {NoId} : Unpair(id, target)
    \/ \E id \in Ids : Close(id)
    \/ \E id \in Ids, target \in Ids \cup {NoId}, index \in Indexes :
            AssignIndex(id, target, index)
    \/ \E id \in Ids, update \in ConfigUpdates : UpdateConfig(id, update)
    \/ \E id \in Ids, update \in ConfigUpdates, now \in Clock : Sync(id, update, now)

SpecWall == Init /\ [][NextWall]_vars

\* SpecStartSync: the start_sync server with VwConns identities, the first an
\* admin and the others clients; codes are registered by clients and requests
\* and responses name an admin and a client; any identity may be named in
\* start_sync, unpair and unpair_client.
VwIds == 1..VwConns
VwRole(id) == IF id = 1 THEN "admin" ELSE "client"
VwIs(id, role) == Has(videoWall.clients, id) /\ videoWall.clients[id].role = role
DisplayModes == {"painting", "unified"}
Grids == {[rows |-> 1, cols |-> 1], [rows |-> 1, cols |-> 2]}
NextStartSync ==
    \/ \E id \in VwIds : handleRegister(id, VwRole(id))
    \/ \E code \in Pins, id \in VwIds : VwIs(id, "client") /\ handleRegisterCode(code, id)
    \/ \E code \in Pins, id \in VwIds :
            VwIs(id, "admin") /\ handleConnectionRequest(code, id)
    \/ \E a \in VwIds, c \in VwIds, approved \in BOOLEAN :
            VwIs(a, "admin") /\ VwIs(c, "client") /\ handleConnectionResponse(a, c, approved)
    \/ \E a \in VwIds, displayMode \in DisplayModes, startTime \in Clock, grid \in Grids :
            handleStartSync(a, displayMode, startTime, grid)
    \/ \E id \in VwIds : handleUnpair(id)
    \/ \E c \in VwIds, a \in VwIds : handleUnpairClient(c, a)
    \/ \E id \in VwIds : handleDisconnect(id)
    \/ CodesExpire
    \/ CleanExpiredCodes

SpecStartSync == Init /\ [][NextStartSync]_vars

\* SpecSyncWall: the syncPlay server with SwSockets sockets; every socket says
\* hello once, without a deviceId, the first socket as an admin, the last one
\* as a client and the others as either; the clients show codes of a space of
\* ExhaustPins codes.
SwWs == 1..SwSockets
SwRoles(ws) ==
    IF ws = 1 THEN {"admin"} ELSE IF ws = SwSockets THEN {"client"} ELSE Modes
DeviceIds == {NoDevice} \cup 1..SwDevices
SwIdentities == 1..SwUuids
Play(mode, grid, startDelayMs) ==
    [mode |-> mode, grid |-> grid, startDelayMs |-> startDelayMs]
SyncPlays ==
    {Play("painting", [rows |-> 1, cols |-> 1], <<>>),
     Play("painting", [rows |-> 1, cols |-> 2], <<0>>),
     Play("painting", [rows |-> 1, cols |-> 2], <<5000>>),
     Play("unified", [rows |-> 1, cols |-> 1], <<500>>),
     Play("unified", [rows |-> 1, cols |-> 2], <<20000>>)}
FirstHello(ws) == Has(syncWall.sockets, ws) /\ syncWall.sockets[ws].role = "none"
NextSyncWall ==
    \/ SwConnect
    \/ \E ws \in SwWs : \E role \in SwRoles(ws) :
            FirstHello(ws) /\ handleHello(ws, role, NoDevice)
    \/ \E ws \in SwWs, code \in ExhaustSpace : syncWall_handleRegisterCode(ws, code)
    \/ \E ws \in SwWs, code \in ExhaustSpace : handlePairByCode(ws, code)
    \/ \E ws \in SwWs, adminId \in SwIdentities, accepted \in BOOLEAN :
            handlePairResponse(ws, adminId, accepted)
    \/ \E ws \in SwWs, target \in SwIdentities \cup {NoId} : syncWall_handleUnpair(ws, target)
    \/ \E ws \in SwWs, p \in SyncPlays : handleSyncPlay(ws, p.mode, p.grid, p.startDelayMs)
    \/ \E ws \in SwWs : handleSyncStop(ws)
    \/ \E ws \in SwWs : syncWall_handleDisconnect(ws)
    \/ SwTick
    \/ cleanupExpiredCodes

SpecSyncWall == Init /\ [][NextSyncWall]_vars

\* SpecReconnect: the syncPlay server with sockets that say hello any number of
\* times, with or without a deviceId, the first socket as an admin and the
\* others as clients; no time passes.
ReconnectRole(ws) == IF ws = 1 THEN "admin" ELSE "client"
ReconnectPlay == Play("unified", [rows |-> 1, cols |-> 1], <<>>)
NextReconnect ==
    \/ SwConnect
    \/ \E ws \in SwWs, deviceId \in DeviceIds :
            handleHello(ws, ReconnectRole(ws), deviceId)
    \/ \E ws \in SwWs, code \in ExhaustSpace : syncWall_handleRegisterCode(ws, code)
    \/ \E ws \in SwWs, code \in ExhaustSpace : handlePairByCode(ws, code)
    \/ \E ws \in SwWs, adminId \in SwIdentities, accepted \in BOOLEAN :
            handlePairResponse(ws, adminId, accepted)
    \/ \E ws \in SwWs, target \in SwIdentities \cup {NoId} : syncWall_handleUnpair(ws, target)
    \/ \E ws \in SwWs :
            handleSyncPlay(ws, ReconnectPlay.mode, ReconnectPlay.grid,
                           ReconnectPlay.startDelayMs)
    \/ \E ws \in SwWs : handleSyncStop(ws)
    \/ \E ws \in SwWs : syncWall_handleDisconnect(ws)

SpecReconnect == Init /\ [][NextReconnect]_vars

\* SpecDispatch: a server process runs one program, the PIN server with its
\* video wall or the syncPlay server; the stores of the other stay as
\* constructed.
RunsPinServer == syncWall = SwInit
RunsSyncWall == nextId = 1
NextDispatch ==
    \/ RunsPinServer /\ NextWall
    \/ RunsSyncWall /\ NextSyncWall

SpecDispatch == Init /\ [][NextDispatch]_vars

\* SpecLiveness: the PIN server with SmallConns connections that may fall
\* silent, the last one a client that registers once and the first registering
\* in either role at any time, and a space of ExhaustPins codes; the ping
\* sweep runs again and again, and a socket that was closed raises its 'close'
\* event.
Closing(id) == Has(clients, id) /\ ~clients[id].open
NextLiveness ==
    \/ Connect(SmallConns)
    \/ FirstRegister(SmallConns) /\ Register(SmallConns, "client")
    \/ \E mode \in Modes : Register(1, mode)
    \/ \E id \in SmallIds :
            Within(genLimiter, id, MaxBurst) /\ GeneratePin(id, ExhaustSpace)
    \/ \E id \in SmallIds, pin \in ExhaustSpace :
            Within(attemptLimiter, id, MaxBurst) /\ EnterPin(id, pin)
    \/ \E id \in SmallIds, target \in SmallIds : ApproveClient(id, target)
    \/ \E id \in SmallIds : Ping(id)
    \/ \E silent \in SUBSET SmallIds : Elapse(silent)
    \/ PingSweep
    \/ \E id \in SmallIds : Close(id)

SpecLiveness ==
    /\ Init /\ [][NextLiveness]_vars
    /\ WF_vars(PingSweep)
    /\ \A id \in SmallIds : WF_vars(Closing(id) /\ Close(id))

\* SpecAsync: the PIN server with SmallConns connections, the first an admin
\* and the other clients; the messages of a connection arrive alone or two at
\* a time in one read of its socket, and the handlers started by one read wait
\* at their awaits in the microtask queue, which is empty before the next read.
Message(type, arg) == [type |-> type, arg |-> arg]
AsyncMessages ==
    {Message("generatePin", 0), Message("unpair", NoId), Message("sync", 0)}
    \cup {Message("enterPin", pin) : pin \in Pins}
    \cup {Message("approveClient", target) : target \in SmallIds}
    \cup {Message("unpair", target) : target \in SmallIds}
Chunks ==
    {<<m>> : m \in AsyncMessages} \cup {<<m, n>> : m \in AsyncMessages, n \in AsyncMessages}
AsyncRole(id) == IF id = 1 THEN "admin" ELSE "client"
Idle == microtasks = <<>>

\* lines 174-187: every message of the chunk starts a handler, which waits at
\* `await messageLimiter.consume`; seq is its place in the chunk
Arrive(id, chunk) ==
    /\ Idle
    /\ IsOpen(clients, id)
    /\ microtasks' = [i \in 1..Len(chunk) |->
                          [id |-> id, type |-> chunk[i].type, arg |-> chunk[i].arg,
                           seq |-> i, awaited |-> FALSE]]
    /\ UNCHANGED <<pinServer, otherServers, sent, last>>

\* lines 368-371 and 413-416: the case awaits its own rate limiter
AwaitsLimiter(h) ==
    /\ ~h.awaited
    /\ Has(clients, h.id)
    /\ \/ h.type = "generatePin" /\ IsAdmin(clients, h.id)
       \/ h.type = "enterPin" /\ clients[h.id].mode = "client" /\ h.arg # NoPin

\* the handler at the head of the queue reaches the await of its case and
\* waits behind the handlers already in the queue
Await ==
    /\ ~Idle
    /\ \E h \in {Head(microtasks)} :
           /\ AwaitsLimiter(h)
           /\ microtasks' = Append(Tail(microtasks), [h EXCEPT !.awaited = TRUE])
    /\ UNCHANGED <<pinServer, otherServers, sent, last>>

\* the handler at the head of the queue runs from its last await to its return
Continue ==
    /\ ~Idle
    /\ \E h \in {Head(microtasks)} :
           /\ ~AwaitsLimiter(h)
           /\ \/ h.type = "generatePin" /\ GeneratePin(h.id, Pins)
              \/ h.type = "enterPin" /\ EnterPin(h.id, h.arg)
              \/ h.type = "approveClient" /\ ApproveClient(h.id, h.arg)
              \/ h.type = "unpair" /\ Unpair(h.id, h.arg)
              \/ h.type = "sync" /\ Sync(h.id, [rows |-> 1], 0)

NextAsync ==
    \/ Idle /\ Connect(SmallConns)
    \/ \E id \in SmallIds : Idle /\ FirstRegister(id) /\ Register(id, AsyncRole(id))
    \/ \E id \in SmallIds, chunk \in Chunks : Arrive(id, chunk)
    \/ Await
    \/ Continue

SpecAsync == Init /\ [][NextAsync]_vars

\* ------------------------------------------------------------------ claims
Group(a) == IF Has(adminGroups, a) THEN adminGroups[a] ELSE {}
BackRef(c, a) ==
    /\ Has(clients, c) /\ clients[c].pairedWith = a
    /\ Has(clientPairings, c) /\ clientPairings[c] = a
UsedBy(active, p) == IF Has(active, p) THEN active[p].usedBy ELSE {}
Count(msgs, to, type) ==
    Cardinality({i \in 1..Len(msgs) : msgs[i].to = to /\ msgs[i].type = type})

\* C1: in every reachable state a client c is in adminGroups[a] exactly when
\* c.pairedWith = a and clientPairings[c] = a.
C1_ViewsMirrored ==
    \A a \in Ids, c \in Ids : (c \in Group(a)) <=> BackRef(c, a)

\* C2: no client is in the groups of two distinct admins.
C2_OneGroupPerClient ==
    \A a \in DOMAIN adminGroups, b \in DOMAIN adminGroups :
        a # b => adminGroups[a] \cap adminGroups[b] = {}

\* the two parts of C3, for one step
C3_Step ==
    /\ \A a \in Ids, c \in Ids :
          (c \in Group(a)' /\ c \notin Group(a)) =>
              /\ Has(pendingApprovals, c)
              /\ pendingApprovals[c].adminId = a
              /\ last' = Ev("approveClient", a, c, "paired")
    /\ \A c \in Ids :
          (/\ Has(pendingApprovals', c)
           /\ (Has(pendingApprovals, c) => pendingApprovals'[c] # pendingApprovals[c]))
          => /\ last' = Ev("enterPin", c, pendingApprovals'[c].pin, "pending")
             /\ Has(activePins, pendingApprovals'[c].pin)
             /\ activePins[pendingApprovals'[c].pin].adminId = pendingApprovals'[c].adminId
\* C3: a client c enters the group of admin a only in a step in which a
\* approves a pending approval for c that names a, and a pending approval for
\* c is created only by c's own enterPin of a code owned by the admin it names.
C3_PairedOnlyByApproval == [][C3_Step]_vars
\* an admin has just approved a client that is now in its group
C3_Witness ==
    /\ last.op = "approveClient" /\ last.res = "paired"
    /\ last.arg \in Group(last.id)

\* C4: no pending approval names an admin whose connection has closed.
C4_NoPendingForClosedAdmin ==
    \A c \in DOMAIN pendingApprovals : Has(clients, pendingApprovals[c].adminId)

\* a client that disconnects with a pending approval: the approval is deleted
\* and only the admin it names, if connected, is sent a cancellation notice
C5_Abandon ==
    \A c \in DOMAIN pendingApprovals :
        ~Has(clients', c) =>
            /\ ~Has(pendingApprovals', c)
            /\ \A a \in DOMAIN clients \ {c} :
                  Count(sent', a, "approvalCancelled") =
                      IF a = pendingApprovals[c].adminId /\ IsOpen(clients, a)
                      THEN 1 ELSE 0
\* the keys of pendingApprovals after a step
C5_Keys ==
    \A c \in DOMAIN pendingApprovals' :
        Has(clients', c) /\ clients'[c].mode = "client"
\* C5: when a client disconnects with a pending approval, the approval is
\* deleted and the admin it names, if still connected, is sent one cancellation
\* notice; every key of pendingApprovals is a connected identity of role client.
C5_PendingOfConnectedClients == [][C5_Abandon /\ C5_Keys]_vars

\* the clients a step adds to usedBy of code p
Grown(p) == UsedBy(activePins', p) \ UsedBy(activePins, p)
\* redeem and reject leave activePins alone; usedBy grows only by the client
\* of a successful approve
C6_Frame ==
    /\ last'.op = "enterPin" /\ last'.res = "pending" => activePins' = activePins
    /\ last'.op = "rejectClient" => activePins' = activePins
    /\ \A p \in DOMAIN activePins' :
          Grown(p) # {} =>
              /\ last'.op = "approveClient" /\ last'.res = "paired"
              /\ Grown(p) = {last'.arg}
\* the disconnect of a client with a pending approval leaves usedBy of the
\* redeemed code as it was
C6_AbandonKeepsUsedBy ==
    \A c \in DOMAIN pendingApprovals :
        (~Has(clients', c) /\ Has(activePins', pendingApprovals[c].pin)) =>
            UsedBy(activePins', pendingApprovals[c].pin)
                = UsedBy(activePins, pendingApprovals[c].pin)
\* C6 (as claimed): a successful redeem does not change usedBy, usedBy grows
\* only in an approve step, and a handshake that is rejected, or abandoned by
\* the client's disconnect, leaves usedBy of the redeemed code as it was.
C6_UsedByUntouchedUntilApprove == [][C6_Frame /\ C6_AbandonKeepsUsedBy]_vars
\* the disconnect of a connection takes it, and nothing else, out of every
\* usedBy
C6_AbandonOnlyLeaves ==
    \A c \in DOMAIN clients :
        ~Has(clients', c) =>
            \A p \in DOMAIN activePins' :
                UsedBy(activePins', p) = UsedBy(activePins, p) \ {c}
\* C6 (amended): a successful redeem does not change usedBy, usedBy grows only
\* in an approve step, a reject leaves it as it was, and the disconnect of a
\* client takes that client, and nothing else, out of every usedBy.
C6_UsedByGrowsOnlyOnApprove == [][C6_Frame /\ C6_AbandonOnlyLeaves]_vars
\* a client has just disconnected with its handshake pending: the admin was
\* told, and the admin's code is still live and still unused
C6_Witness ==
    /\ last.op = "close" /\ last.res = "client"
    /\ \E a \in DOMAIN adminPins :
          /\ Count(sent, a, "approvalCancelled") = 1
          /\ UsedBy(activePins, adminPins[a]) = {}
          /\ Has(activePins, adminPins[a])

\* C7: usedBy of a code never holds more than maxUses clients, and an enterPin
\* of a code whose usedBy has reached maxUses pairs nobody.
C7_UsedByWithinMaxUses ==
    /\ \A p \in DOMAIN activePins :
          Cardinality(activePins[p].usedBy) <= activePins[p].maxUses
    /\ last.op = "enterPin" /\ last.res = "pending"
          => Cardinality(activePins[last.arg].usedBy) < activePins[last.arg].maxUses

\* the step handles an enterPin of code p sent by connection c
Redeems(c, p) ==
    /\ last'.op = "enterPin" /\ last'.id = c /\ last'.arg = p
    /\ attemptLimiter' # attemptLimiter
\* the code-expired outcome of an enterPin of p by c
ExpiredOutcome(c, p) ==
    /\ last'.res = "pinExpired"
    /\ sent' = Send(clients, c, "error:pinExpired", 0)
    /\ ~Has(activePins', p)
    /\ ~Has(adminPins', activePins[p].adminId)
    /\ pendingApprovals' = pendingApprovals
    /\ adminGroups' = adminGroups
    /\ clientPairings' = clientPairings
    /\ clients' = clients
InQuota(c) == Within(attemptLimiter, c, AttemptPoints)
C9_Step ==
    \A a \in DOMAIN clients :
        (/\ ~Has(clients', a)
         /\ clients[a].mode = "admin"
         /\ \A c \in Group(a) : IsOpen(clients, c))
        => /\ \A c \in Group(a) : Count(sent', c, "unpaired:adminDisconnected") = 1
           /\ Cardinality({i \in 1..Len(sent') :
                              sent'[i].type = "unpaired:adminDisconnected"})
                 = Cardinality(Group(a))
           /\ ~Has(adminGroups', a)
\* C9: when an admin whose paired clients are all connected disconnects, each
\* of them is sent one 'unpaired / admin disconnected' notice, no other such
\* notice is sent, and the admin has no group afterwards.
C9_OneNoticePerPairedClient == [][C9_Step]_vars

\* the live codes of admin a
OwnedBy(a) == {p \in DOMAIN activePins : activePins[p].adminId = a}
\* C10: each admin owns at most one live code; after a successful generatePin
\* that code is the one just issued.
C10_OneLivePinPerAdmin ==
    /\ \A a \in Ids : Cardinality(OwnedBy(a)) <= 1
    /\ last.op = "generatePin" /\ last.res = "ok" => OwnedBy(last.id) = {last.arg}
\* an admin has just replaced a code that a client had redeemed: the pending
\* approval still names the old code, which is no longer live
C10_Witness ==
    /\ last.op = "generatePin" /\ last.res = "ok"
    /\ \E c \in DOMAIN pendingApprovals :
          /\ pendingApprovals[c].adminId = last.id
          /\ pendingApprovals[c].pin # last.arg
          /\ ~Has(activePins, pendingApprovals[c].pin)

\* a generatePin or a close of another connection leaves the entry of code p
\* in activePins, and leaves it with its owner
C11_Step ==
    \A p \in DOMAIN activePins :
        (last'.op \in {"generatePin", "close"} /\ last'.id # activePins[p].adminId)
            => Has(activePins', p) /\ activePins'[p].adminId = activePins[p].adminId
\* C11: a generatePin never issues a code that is live for a different admin
\* (no entry of activePins is overwritten or reassigned), and an admin that
\* retires its code or disconnects never deletes a code owned by another admin.
C11_IssueKeepsOthersCodes == [][C11_Step]_vars

\* a generatePin, within the quota, of an admin that owns no code while every
\* code of the space is live: it is answered with an error and leaves
\* activePins and adminPins as they are
C12_Step ==
    \A a \in DOMAIN clients :
        (/\ last'.op = "generatePin" /\ last'.id = a /\ last'.res # "rateLimited"
         /\ genLimiter' # genLimiter
         /\ DOMAIN activePins = ExhaustSpace
         /\ \A p \in DOMAIN activePins : activePins[p].adminId # a)
        => /\ last'.res = "exhausted"
           /\ Count(sent', a, "pinGenerated") = 0
           /\ activePins' = activePins
           /\ adminPins' = adminPins
\* C12: when every code of the code space is live, a generatePin terminates
\* with a generation-exhausted error for the admin and leaves activePins and
\* adminPins unchanged.
C12_ExhaustedIsAnError == [][C12_Step]_vars

\* the stores other than the rate limiters are left as they are
StoresUnchanged ==
    UNCHANGED <<clients, adminClients, activePins, pendingApprovals,
                clientPairings, adminGroups, adminPins, usedPins, wallConfigs>>
\* a generatePin of an admin that has used up GenPoints requests in the window
C13_Step ==
    \A a \in DOMAIN genLimiter :
        (/\ last'.op = "generatePin" /\ last'.id = a
         /\ genLimiter' # genLimiter
         /\ genLimiter[a] >= GenPoints)
        => /\ last'.res = "rateLimited"
           /\ sent' = Send(clients, a, "error:pinGeneration", 0)
           /\ StoresUnchanged
           /\ attemptLimiter' = attemptLimiter
\* C13: a generatePin beyond the issuance quota (GenPoints per window) is
\* answered with the rate-limit error and changes no store: the admin's code
\* stays live.
C13_OverQuotaIssueChangesNothing == [][C13_Step]_vars
\* an admin with a live code has just been refused a further code
C13_Witness ==
    /\ last.op = "generatePin" /\ last.res = "rateLimited"
    /\ Has(adminPins, last.id)
    /\ Has(activePins, adminPins[last.id])
    /\ activePins[adminPins[last.id]].adminId = last.id

\* an enterPin of a connection that has used up AttemptPoints attempts in the
\* window
C14_Step ==
    \A c \in DOMAIN attemptLimiter :
        (/\ last'.op = "enterPin" /\ last'.id = c
         /\ attemptLimiter' # attemptLimiter
         /\ attemptLimiter[c] >= AttemptPoints)
        => /\ last'.res = "rateLimited"
           /\ sent' = Send(clients, c, "error:pinAttempts", 0)
           /\ StoresUnchanged
           /\ genLimiter' = genLimiter
\* C14: an enterPin beyond the attempt quota (AttemptPoints per window, every
\* earlier attempt counted, whatever its outcome) is answered with the
\* rate-limit error and changes no store, whether or not the code is live.
C14_OverQuotaAttemptChangesNothing == [][C14_Step]_vars
\* a client has just been refused on a code that is live, not expired, and
\* whose admin is connected
C14_Witness ==
    /\ last.op = "enterPin" /\ last.res = "rateLimited"
    /\ Has(activePins, last.arg)
    /\ ~Expired(activePins[last.arg])
    /\ IsOpen(clients, activePins[last.arg].adminId)
    /\ ~Has(pendingApprovals, last.id)

\* an approveClient or rejectClient that is not for a pending approval naming
\* its sender
C15_Step ==
    (/\ last'.op \in {"approveClient", "rejectClient"}
     /\ ~(/\ Has(pendingApprovals, last'.arg)
          /\ pendingApprovals[last'.arg].adminId = last'.id))
    => /\ StoresUnchanged
       /\ genLimiter' = genLimiter /\ attemptLimiter' = attemptLimiter
\* C15: an approve or reject for a client that has no pending approval, or
\* whose pending approval names another admin, changes no store: the pending
\* approval stays, no pairing is created and usedBy is unchanged.
C15_ForeignApproveChangesNothing == [][C15_Step]_vars
\* an admin has just been refused the approval of a client whose pending
\* approval names another admin, and that approval is still in place
C15_Witness ==
    /\ last.op = "approveClient" /\ last.res = "notYours"
    /\ \E c \in DOMAIN pendingApprovals :
          /\ pendingApprovals[c].adminId # last.id
          /\ Has(clients, pendingApprovals[c].adminId)
          /\ clients[c].pairedWith = NoId

\* an approveClient of client c sent by the admin that c's pending approval
\* names
C16_Step ==
    \A c \in DOMAIN pendingApprovals, a \in DOMAIN clients :
        (/\ pendingApprovals[c].adminId = a
         /\ last'.op = "approveClient" /\ last'.id = a /\ last'.arg = c)
        => /\ c \in Group(a)'
           /\ BackRef(c, a)'
           /\ c \in UsedBy(activePins', pendingApprovals[c].pin)
           /\ ~Has(pendingApprovals', c)
           /\ Count(sent', c, "paired") = 1
           /\ Count(sent', a, "clientPaired") = 1
\* C16: whenever a pending approval for client c names admin a, an approve of
\* c sent by a pairs them: c is in a's group, c's back-reference is a, c is in
\* usedBy of the code, the pending approval is deleted, and both are notified.
C16_ApprovePairs == [][C16_Step]_vars

\* an admin's unpair that names a client paired with a different admin
C17_Step ==
    \A t \in DOMAIN clients :
        (/\ last'.op = "unpair" /\ last'.res = "unpaired" /\ last'.arg = t
         /\ clients[t].pairedWith \notin {NoId, last'.id})
        => /\ clients'[t] = clients[t]
           /\ adminGroups' = adminGroups
           /\ clientPairings' = clientPairings
           /\ Count(sent', t, "unpaired:adminUnpaired") = 0
\* C17: an admin's unpair of a client that is paired with a different admin
\* leaves that pairing, the client's deviceIndex and the other admin's group
\* unchanged, and the client is sent no unpaired notice.
C17_UnpairOnlyOwnClients == [][C17_Step]_vars

\* nothing of admin a is left in the stores after the step
NoTraceOf(a) ==
    /\ ~Has(wallConfigs', a)
    /\ ~Has(adminPins', a)
    /\ \A p \in DOMAIN activePins' : activePins'[p].adminId # a
    /\ ~Has(adminGroups', a)
    /\ \A c \in DOMAIN clients' : clients'[c].pairedWith # a
    /\ \A c \in DOMAIN clients' \cap DOMAIN clientPairings' : clientPairings'[c] # a
\* C18: after the close of a connection that registered as an admin, whatever
\* it sent before, the admin has no wall configuration, no live code, no
\* adminPins entry and no group, and no connected client's pairedWith or
\* clientPairings entry names it.
C18_AdminCloseLeavesNothing ==
    [][\A a \in adminClients :
          (Has(clients, a) /\ ~Has(clients', a)) => NoTraceOf(a)]_vars

\* the close of a client c that is paired with a connected admin a
C19_Step ==
    \A c \in DOMAIN clients, a \in DOMAIN clients :
        (/\ c # a /\ clients[c].mode = "client"
         /\ clients[c].pairedWith = a /\ c \in Group(a)
         /\ ~Has(clients', c))
        => /\ c \notin Group(a)'
           /\ ~Has(clientPairings', c)
           /\ IsOpen(clients, a) => Count(sent', a, "clientUnpaired") = 1
\* C19: when a paired client disconnects it leaves its admin's group, its
\* back-reference is removed, and the admin, if connected, is sent one
\* clientUnpaired notice.
C19_ClientCloseNotifiesAdmin == [][C19_Step]_vars

\* an approve that pairs a client c that is paired with another admin b
C20_Step ==
    \A c \in DOMAIN clients, b \in DOMAIN clients :
        (/\ last'.op = "approveClient" /\ last'.res = "paired" /\ last'.arg = c
         /\ Has(pendingApprovals, c) /\ pendingApprovals[c].adminId = last'.id
         /\ b # last'.id
         /\ clients[c].pairedWith = b /\ c \in Group(b))
        => /\ c \notin Group(b)'
           /\ IsOpen(clients, b) => Count(sent', b, "unpaired:repaired") = 1
\* C20: when an approve re-pairs a client that is paired with another admin,
\* the client leaves the old admin's group and the old admin, if connected, is
\* sent one unpaired notice with reason 'repaired'.
C20_RepairNotifiesOldAdmin == [][C20_Step]_vars

\* a connection whose role is set keeps it, and a register message on such a
\* connection changes no store
C21_Step ==
    \A id \in DOMAIN clients :
        clients[id].mode # "none" =>
            /\ Has(clients', id) => clients'[id].mode = clients[id].mode
            /\ (last'.op = "register" /\ last'.id = id) => StoresUnchanged
\* C21: a register message on a connection whose role is already set fails and
\* changes no state: the role is set at most once and never changes, and the
\* admin's group and wall configuration are not reset by a repeated register.
C21_RoleSetOnce == [][C21_Step]_vars

\* the step handles an admin-only message of a connection id that is not an
\* admin
AdminOnlyStep(id) ==
    /\ clients[id].mode # "admin"
    /\ \/ GeneratePin(id, Pins)
       \/ \E target \in Ids : ApproveClient(id, target) \/ RejectClient(id, target)
       \/ \E target \in Ids \cup {NoId}, index \in Indexes : AssignIndex(id, target, index)
       \/ \E update \in ConfigUpdates : UpdateConfig(id, update)
       \/ \E update \in ConfigUpdates, now \in Clock : Sync(id, update, now)
\* the step handles an enterPin of a connection id that is not a client
ClientOnlyStep(id) ==
    /\ clients[id].mode # "client"
    /\ \E pin \in Pins \cup {NoPin} : EnterPin(id, pin)
\* the messages of a step that went to connections other than id
ToOthers(msgs, id) == {i \in 1..Len(msgs) : msgs[i].to # id}
\* C22: an admin-only message (generatePin, approveClient, rejectClient,
\* assignIndex, updateConfig, sync) of a connection that is not an admin, and
\* an enterPin of a connection that is not a client, changes no store and
\* sends no message to any other connection.
C22_WrongRoleChangesNothing ==
    [][\A id \in DOMAIN clients :
          (AdminOnlyStep(id) \/ ClientOnlyStep(id))
              => /\ StoresUnchanged
                 /\ genLimiter' = genLimiter /\ attemptLimiter' = attemptLimiter
                 /\ sent' # sent => ToOthers(sent', id) = {}]_vars
\* the client is paired, in a group, with a tile index, while a pending
\* approval may be waiting: the state its own admin-only messages leave alone
C22_Witness ==
    \E c \in DOMAIN clients, a \in DOMAIN clients :
        /\ clients[c].mode = "client" /\ clients[a].mode = "admin"
        /\ c \in Group(a) /\ clients[c].deviceIndex # NoIndex
        /\ Has(wallConfigs, a) /\ wallConfigs[a].mode = "unified"
        /\ Has(pendingApprovals, c)
        /\ ENABLED AdminOnlyStep(c)

\* a step that ends the pairing of a connected client c with admin a clears
\* the client's deviceIndex
C30_Step ==
    \A c \in DOMAIN clients, a \in DOMAIN clients :
        (/\ clients[c].pairedWith = a
         /\ Has(clients', c) /\ clients'[c].pairedWith # a)
        => clients'[c].deviceIndex = NoIndex
\* C30: whenever a client's pairing with admin a ends (admin unpair, client
\* unpair, admin disconnect, re-pairing to another admin by approve) the
\* client's deviceIndex is cleared, so a tile index never outlives the pairing
\* with the admin that assigned it.
C30_IndexEndsWithPairing == [][C30_Step]_vars

\* the clients paired with admin a in the start_sync server
VwGroup(a) ==
    IF Has(videoWall.adminClientPairs, a) THEN videoWall.adminClientPairs[a] ELSE <<>>
\* a start_sync of a registered admin that has no paired client
C23_Step ==
    \A a \in DOMAIN videoWall.clients :
        (last'.op = "start_sync" /\ last'.id = a /\ VwGroup(a) = <<>>)
        => sent' = Send(videoWall.clients, a, "error:noClientsPaired", 0)
\* C23: in the start_sync server, a dispatch by an admin that has no paired
\* client is answered with the 'No clients paired' error and sends no
\* sync_command, also when the admin had clients that have all been unpaired.
C23_NoGroupIsAnError == [][C23_Step]_vars

\* the bodies of the messages of one type among msgs
Bodies(msgs, type) == {msgs[i].arg : i \in {j \in 1..Len(msgs) : msgs[j].type = type}}
\* clamp(d, lo, hi)
Clamp(d, lo, hi) == IF d < lo THEN lo ELSE IF d > hi THEN hi ELSE d
\* C24: for every integer startDelayMs supplied with syncPlay the dispatcher
\* computes startAtMs = now + clamp(startDelayMs, 1000, 10000), values below
\* 1000, 0 among them, giving now + 1000; without a startDelayMs the delay is
\* the default 3000.
C24_StartDelayClamped ==
    last.op = "syncPlay" =>
        \A reply \in Bodies(sent, "syncScheduled") :
            reply.startAtMs =
                syncWall.now +
                    (IF last.arg.startDelayMs = <<>>
                     THEN DefaultDelay
                     ELSE Clamp(last.arg.startDelayMs[1], MinDelay, MaxDelay))

\* the start instants carried by the messages of one dispatch
StartInstants(msgs) ==
    {b.startAtMs : b \in Bodies(msgs, "syncPrepare") \cup Bodies(msgs, "syncScheduled")}
SyncTimes(msgs) == {b.syncTime : b \in Bodies(msgs, "sync")}
\* C25: within one dispatch every recipient is sent the same start instant,
\* the one reported back to the admin: all syncPrepare messages of one syncPlay
\* carry the startAtMs of the syncScheduled reply, and all recipients of one
\* sync of the PIN server are sent one syncTime.
C25_OneStartInstant ==
    /\ last.op = "syncPlay" => Cardinality(StartInstants(sent)) <= 1
    /\ last.op = "sync" => Cardinality(SyncTimes(sent)) <= 1
\* a syncPlay delivered to two clients and acknowledged to the admin
C25_Witness ==
    /\ last.op = "syncPlay"
    /\ Len(SelectSeq(sent, LAMBDA m : m.type = "syncPrepare")) = 2
    /\ Bodies(sent, "syncScheduled") # {}

\* the tile indexes delivered by one dispatch, in the order of delivery
RECURSIVE Tiles(_)
Tiles(msgs) ==
    IF msgs = <<>> THEN <<>>
    ELSE (IF Head(msgs).type = "syncPrepare"
          THEN <<Head(msgs).arg.tileIndex>> ELSE <<>>) \o Tiles(Tail(msgs))
Cells(grid) == grid.rows * grid.cols
PaintingPlay == last.op = "syncPlay" /\ last.res = "painting"
\* C26: for one painting-mode syncPlay whose reply reports count, with
\* count <= rows*cols, the tileIndex values delivered to the group's clients
\* are exactly 0..count-1, each once, also when a member's connection is down.
C26_TilesArePermutation ==
    PaintingPlay =>
        \A reply \in Bodies(sent, "syncScheduled") :
            reply.count <= Cells(last.arg.grid) =>
                /\ Len(Tiles(sent)) = reply.count
                /\ Range(Tiles(sent)) = 0..(reply.count - 1)

\* the members of the group of the admin on socket ws
SwGroup(ws) ==
    IF SwIs(ws, "admin")
    THEN computeAssignmentsForAdmin(syncWall, syncWall.sockets[ws].adminId)
    ELSE <<>>
\* C27: a painting-mode dispatch to a group with more members than rows*cols
\* is rejected with GridTooSmall and delivers no command, so every tileIndex
\* delivered is strictly less than rows*cols of its dispatch.
C27_GridTooSmallRejected ==
    PaintingPlay =>
        /\ Len(SwGroup(last.id)) > Cells(last.arg.grid) =>
               /\ Tiles(sent) = <<>>
               /\ \A m \in Range(sent) : m.type = "error" /\ m.arg = "GridTooSmall"
        /\ \A tileIndex \in Range(Tiles(sent)) : tileIndex < Cells(last.arg.grid)

\* C28: in unified mode every recipient of one dispatch receives the same
\* command, and that command carries no tile index.
C28_UnifiedSameCommand ==
    last.op = "syncPlay" /\ last.res = "unified" =>
        /\ Cardinality(Bodies(sent, "syncPrepare")) <= 1
        /\ \A command \in Bodies(sent, "syncPrepare") :
               "tileIndex" \notin DOMAIN command

\* the open sockets on which client c is connected
Connections(sw, c) ==
    {ws \in DOMAIN sw.sockets :
        /\ sw.sockets[ws].open
        /\ sw.sockets[ws].role = "client"
        /\ sw.sockets[ws].clientId = c}
DispatchTypes == {"syncPrepare", "syncStop"}
\* the number of commands among msgs that are addressed to socket ws
DispatchTo(msgs, ws) ==
    Len(SelectSeq(msgs, LAMBDA m : m.to = ws /\ m.type \in DispatchTypes))
\* the commands a dispatch of the admin on socket a would deliver in sw
Dispatch(sw, a) ==
    IF Has(sw.sockets, a) /\ sw.sockets[a].role = "admin"
       /\ sw.sockets[a].adminId # NoId
    THEN SyncStops(sw, computeAssignmentsForAdmin(sw, sw.sockets[a].adminId))
    ELSE <<>>
\* a dispatch reaches every connected member of the group once, and nobody else
DeliveredToGroup ==
    last.op \in {"syncPlay", "syncStop"} =>
        LET group == Range(SwGroup(last.id)) IN
        /\ \A c \in group : \A ws \in Connections(syncWall, c) :
               DispatchTo(sent, ws) = 1
        /\ \A m \in Range(sent) :
               m.type \in DispatchTypes =>
                   \E c \in group : m.to \in Connections(syncWall, c)
\* after an unpair by a client, or by an admin, the unpaired client is outside
\* the dispatches of the admin
UnpairedGetNothing ==
    /\ \A ws \in SwWs :
           syncWall_handleUnpair(ws, NoId) /\ SwIs(ws, "client") =>
               \A a \in SwWs : DispatchTo(Dispatch(syncWall', a), ws) = 0
    /\ \A a \in SwWs, c \in SwIdentities :
           syncWall_handleUnpair(a, c) /\ SwIs(a, "admin") =>
               \A ws \in Connections(syncWall', c) :
                   DispatchTo(Dispatch(syncWall', a), ws) = 0
\* C29: a syncPlay or syncStop of admin a is delivered exactly once to every
\* client of a's group that has an open connection and to no client outside
\* the group: a client that a has unpaired, or that unpaired itself, receives
\* nothing from a's later dispatches.
C29_DispatchReachesGroupOnly == [][DeliveredToGroup' /\ UnpairedGetNothing]_vars

\* a handler returns after changing a store or delivering a message
TakesEffect ==
    /\ microtasks # <<>>
    /\ microtasks' = Tail(microtasks)
    /\ (pinServer' # pinServer \/ sent' # sent \/ last' # last)
\* C31: the effects of two messages sent on one connection are applied in
\* arrival order, also when the handler of the first awaits more rate-limiter
\* calls than that of the second: no message takes effect while an earlier
\* message of its connection is still waiting.
C31_ArrivalOrder ==
    [][TakesEffect =>
           \A h \in {Head(microtasks)} : \A i \in 1..Len(microtasks') :
               microtasks'[i].id = h.id => microtasks'[i].seq > h.seq]_vars

\* the codes older than the lifetime
Stale(active) == {p \in DOMAIN active : active[p].age > ExpireTime}
\* the number of messages of msgs that are m
Copies(msgs, m) == Cardinality({i \in 1..Len(msgs) : msgs[i] = m})
SweepOutcome ==
    /\ Stale(activePins') = {}
    /\ \A a \in DOMAIN adminPins' : adminPins'[a] \notin Stale(activePins)
    /\ \A p \in Stale(activePins) :
           IsOpen(clients, activePins[p].adminId) =>
               Copies(sent', Msg(activePins[p].adminId, "pinExpired", p)) = 1
    /\ \A c \in DOMAIN clients :
           IsOpen(clients, c) =>
               Copies(sent', Msg(c, "pinExpired", 0)) =
                   Cardinality({p \in Stale(activePins) : c \in activePins[p].usedBy})
    /\ \A i \in 1..Len(sent') : IsOpen(clients, sent'[i].to)
    /\ adminGroups' = adminGroups
    /\ clientPairings' = clientPairings
    /\ clients' = clients
\* C32: after a run of the expiry sweep no code older than the lifetime is in
\* activePins and no adminPins entry points to an evicted code; for each
\* evicted code its admin, if connected, is sent one expiry notice and so is
\* each connected client of its usedBy set; group membership and the clients'
\* pairings are unchanged.
C32_SweepEvictsAndNotifies == [][cleanupExpiredPins => SweepOutcome]_vars

\* nothing of connection id is left in the stores
TornDown(id) ==
    /\ ~Has(clients, id)
    /\ ~Has(pendingApprovals, id)
    /\ ~Has(clientPairings, id) /\ Group(id) = {}
    /\ \A a \in DOMAIN adminGroups : id \notin adminGroups[a]
    /\ \A c \in DOMAIN clients : clients[c].pairedWith # id
    /\ \A c \in DOMAIN clientPairings : clientPairings[c] # id
\* C33: with the ping sweep scheduled fairly, a connection that has sent no
\* ping for longer than the timeout is eventually closed and torn down as by
\* an explicit close: its identity leaves the registry, its pairings are
\* dissolved and its pending approval is removed (unless it pings again).
C33_SilentIsTornDown ==
    \A id \in SmallIds :
        (IsOpen(clients, id) /\ Overdue(clients, id))
            ~> (TornDown(id) \/ (Has(clients, id) /\ ~Overdue(clients, id)))

\* the pairings as the admins' records hold them, and as the clients' hold them
AdminSide(sw) ==
    {p \in (DOMAIN sw.admins) \X SwIdentities :
        p[2] \in Range(sw.admins[p[1]].pairedClientIds)}
ClientSide(sw) ==
    {p \in SwIdentities \X (DOMAIN sw.clients) :
        p[1] \in Range(sw.clients[p[2]].adminIds)}
\* a hello under an identity whose record lost its socket at a disconnect
Rejoins ==
    /\ last'.op = "hello" /\ last'.res \in {"client", "admin"}
    /\ IF last'.res = "client"
       THEN Has(syncWall.clients, last'.arg) /\ syncWall.clients[last'.arg].ws = NoId
       ELSE Has(syncWall.admins, last'.arg) /\ syncWall.admins[last'.arg].ws = NoId
\* C34: a client or an admin that disconnects and later says hello with the
\* same deviceId keeps its pairings on both sides: the admins' pairedClientIds
\* and the clients' adminIds stay as they were, and mirrored.
C34_RejoinKeepsPairings ==
    [][(Rejoins /\ AdminSide(syncWall) = ClientSide(syncWall)) =>
           /\ AdminSide(syncWall') = AdminSide(syncWall)
           /\ ClientSide(syncWall') = ClientSide(syncWall)]_vars

\* the record of the identity of socket ws holds ws
Bound(sw, ws) ==
    /\ Has(sw.sockets, ws)
    /\ LET s == sw.sockets[ws] IN
       \/ /\ s.role = "client" /\ Has(sw.clients, s.clientId)
          /\ sw.clients[s.clientId].ws = ws
       \/ /\ s.role = "admin" /\ Has(sw.admins, s.adminId)
          /\ sw.admins[s.adminId].ws = ws
\* a hello on socket new took the identity of socket old over
Replaced(sw, old, new) ==
    /\ old # new /\ Has(sw.sockets, old) /\ Bound(sw, new)
    /\ sw.sockets[new].open
    /\ sw.sockets[old].role = sw.sockets[new].role
    /\ sw.sockets[old].clientId = sw.sockets[new].clientId
    /\ sw.sockets[old].adminId = sw.sockets[new].adminId
\* C35: when a hello on a new socket has replaced the connection of a clientId
\* or adminId, the later close event of the replaced socket does not sever the
\* new binding: the record still holds the new socket.
C35_StaleCloseKeepsBinding ==
    [][\A old \in SwWs, new \in SwWs :
           (Replaced(syncWall, old, new) /\ last'.op = "close" /\ last'.id = old)
               => Bound(syncWall', new)]_vars

\* the code of target's pending approval is older than the lifetime: still in
\* activePins with that age, or evicted
PendingExpired(target) ==
    /\ Has(pendingApprovals, target)
    /\ LET pin == pendingApprovals[target].pin IN
       Has(activePins, pin) => activePins[pin].age > ExpireTime
\* C36: an approveClient for a pending approval whose code is older than the
\* 5-minute lifetime, whether the expiry sweep has run or not, does not add the
\* client to the admin's group.
C36_ExpiredApprovalDoesNotPair ==
    [][\A id \in Ids, target \in Ids :
           (/\ PendingExpired(target)
            /\ last'.op = "approveClient" /\ last'.id = id
            /\ target \notin Group(id))
               => target \notin adminGroups'[id]]_vars

\* the clients other than the sender that the messages of the last sync or
\* updateConfig went to
Reached ==
    {sent[i].to : i \in {j \in 1..Len(sent) :
                            /\ sent[j].type \in {"sync", "configUpdate"}
                            /\ sent[j].to # last.id}}
\* C37: in no reachable state does a sync or an updateConfig issued by admin a
\* reach a client whose pairedWith is not a.
C37_WallMessagesStayInGroup ==
    last.op \in {"sync", "updateConfig"} =>
        \A c \in Reached : Has(clients, c) /\ clients[c].pairedWith = last.id

\* the tile index a syncPlay of admin adminId gives each client it reaches
TileIndexes(sw, adminId) ==
    LET prepare == [mode |-> "unified", grid |-> [rows |-> 1, cols |-> 1],
                    tileIndex |-> 0, startAtMs |-> 0]
        msgs == SyncPrepares(sw, computeAssignmentsForAdmin(sw, adminId), prepare, 0)
    IN {p \in SwIdentities \X (0..SwUuids) :
            \E i \in 1..Len(msgs) :
                /\ Has(sw.clients, p[1]) /\ sw.clients[p[1]].ws = msgs[i].to
                /\ msgs[i].arg.tileIndex = p[2]}
\* C38: two syncPlay dispatches of one admin with no pair or unpair between
\* them give every client the same tileIndex: a step that is no pairing and no
\* unpairing leaves the tile index of every client of every admin as it was.
C38_TileIndexStable ==
    [][last'.op \notin {"pairResponse", "unpair"} =>
           \A a \in SwIdentities :
               \A p \in TileIndexes(syncWall, a), q \in TileIndexes(syncWall', a) :
                   p[1] = q[1] => p[2] = q[2]]_vars
====
